---- MODULE Spec2Model ----
(***************************************************************************)
(* A model of rocketdoo's deployment subsystem:                            *)
(*   rocketdoo/core/deploy/base.py            BaseDeployer, DeploymentResult*)
(*   rocketdoo/core/deploy/module_packager.py ModulePackager               *)
(* with the outcomes of the abstract steps taken from the two backends,    *)
(*   rocketdoo/core/deploy/vps.py and rocketdoo/core/deploy/odoo_sh.py.    *)
(*                                                                         *)
(* Specifications that share the module:                                   *)
(*   Spec        one run of BaseDeployer.execute, step by step;            *)
(*   SpecBackup  a call of BaseDeployer.create_backup on a backup root that *)
(*               several targets share;                                    *)
(*   SpecPack    ModulePackager.prepare_module on module trees;            *)
(*   SpecGit     OdooSHDeployer.deploy_modules and rollback on a remote;   *)
(*   SpecVps     VPSDeployer construction, validation and transfer;        *)
(*   SpecScan    ModuleScanner on a module root that changes;              *)
(*   SpecHost    a VPSDeployer run from the backup on, with the host;      *)
(*   SpecCli     deploy_cli's `deploy run` up to the backup step.          *)
(* Strings that the code inspects character by character (target names,    *)
(* snapshot names, file names, glob patterns) are sequences of one-        *)
(* character strings.  Log messages and result messages are tuples of      *)
(* strings (the pieces of the f-string).  The wall-clock timestamp of a    *)
(* log entry and of a DeploymentResult is left out: nothing reads it.      *)
(***************************************************************************)
EXTENDS Integers, Sequences, FiniteSets, TLC

VARIABLES
    \* ---- one run of execute (Spec) ----
    pc,             \* position in BaseDeployer.execute
    backend,        \* "vps" | "odoo-sh": the concrete deployer class
    target_name,    \* self.target_name
    config,         \* self.config: [backup, validations]
    modules,        \* the argument of execute: a sequence of module dicts
    logs,           \* self.logs
    calls,          \* history: the step methods invoked so far, in order
    config_errors,  \* <<>> or <<list>>: what validate_config returned
    validation_errors, \* <<>> or <<list>>: what validate_modules returned
    backup_ok,      \* history: what create_backup returned (<<>> before)
    check_ok,       \* history: what pre_deploy_check returned (<<>> before)
    deploy_result,  \* <<>> or <<r>>: what deploy_modules returned
    post_result,    \* <<>> or <<r>>: what post_deploy_actions returned
    rollback_result,\* <<>> or <<r>>: what rollback returned
    result,         \* <<>> or <<r>>: what execute returned
    raised,         \* <<>> or <<text>>: the exception that left execute
    remote,         \* history: the operations performed on the remote side
    \* ---- the backup root on disk (Spec and SpecBackup) ----
    backups,        \* the snapshot directories under the backup root
    backups0,       \* history: the backup root when the current call started
    clock,          \* datetime.now(), in seconds
    last,           \* history: the last create_backup call of SpecBackup
    \* ---- the packager (SpecPack) ----
    tree,           \* the module's source tree
    patterns,       \* ModulePackager.exclude_patterns
    staged,         \* the staged copy: the entries below the destination
    prepared,       \* TRUE once prepare_module has run
    \* ---- the other components, each a record of its fields ----
    git,            \* OdooSHDeployer.deploy_modules and the Git remote (SpecGit)
    vps,            \* VPSDeployer: construction, secrets file, staging (SpecVps)
    scan,           \* ModuleScanner and the module root it scans (SpecScan)
    host,           \* one VPSDeployer.execute run and the remote host (SpecHost)
    cli             \* one `deploy run` invocation of deploy_cli (SpecCli)

exec_vars == <<pc, backend, target_name, config, modules, logs, calls,
               config_errors, validation_errors,
               backup_ok, check_ok, deploy_result, post_result,
               rollback_result, result, raised, remote>>
disk_vars == <<backups, backups0, clock, last>>
pack_vars == <<tree, patterns, staged, prepared>>
ext_vars == <<git, vps, scan, host, cli>>
vars == <<exec_vars, disk_vars, pack_vars, ext_vars>>

----------------------------------------------------------------------------
(* Bounds of the model *)

MaxModules == 2     \* modules passed to one execute / create_backup call
MaxClock == 3       \* the second at which create_backup runs in SpecBackup
MaxSnapshots == 4   \* snapshots in the backup root when it runs

----------------------------------------------------------------------------
(* DeploymentResult and the log *)

\* DeploymentResult.details: a dict, modelled by the set of its keys and the
\* value under each key that some result of the model carries.
NoDetails ==
    [keys |-> {}, errors |-> <<>>, modules |-> <<>>, modules_deployed |-> 0,
     logs |-> <<>>]

\* DeploymentResult(success, message, details); details=None gives {}.
DeploymentResult(success, message, details) ==
    [success |-> success, message |-> message, details |-> details]

\* BaseDeployer.log: appends {'timestamp','level','message'} to self.logs.
LogEntry(message, level) == [level |-> level, message |-> message]

----------------------------------------------------------------------------
(* The inputs of a run *)

\* The module dicts handed to execute (OdooModule.to_dict): the name and what
\* validate_modules finds on disk under full_path.
\*   manifest  __manifest__.py exists
\*   py        "ok": every *.py file compiles; "syntax": compile() raises
\*             SyntaxError on one; "undecodable": one is not valid UTF-8, so
\*             f.read() raises UnicodeDecodeError
\*   xml       "ok": every *.xml file parses; "bad": ET.parse raises ParseError
Module(name, manifest, py, xml) ==
    [name |-> name, manifest |-> manifest, py |-> py, xml |-> xml]

ModuleDicts ==
    { Module("m1", TRUE, "ok", "ok"),
      Module("m2", FALSE, "ok", "ok"),
      Module("m3", TRUE, "syntax", "ok"),
      Module("m4", TRUE, "undecodable", "ok"),
      Module("m5", TRUE, "ok", "bad") }

ModuleLists == UNION { [1..n -> ModuleDicts] : n \in 0..MaxModules }

\* self.config.get('validations', {}): present is FALSE for the empty dict;
\* the three flags are validations.get(<key>, True).
Validations(present, manifest, py, xml) ==
    [present |-> present, check_manifest |-> manifest,
     check_python_syntax |-> py, check_xml_syntax |-> xml]

ValidationConfigs ==
    { Validations(FALSE, TRUE, TRUE, TRUE),
      Validations(TRUE, TRUE, TRUE, TRUE),
      Validations(TRUE, TRUE, FALSE, TRUE),
      Validations(TRUE, FALSE, TRUE, FALSE) }

\* self.config.get('backup', {}): enabled = get('enabled', True),
\* keep_last = get('keep_last', 3).
DefaultKeepLast == 3
KeepLasts == 0..DefaultKeepLast
BackupConfig(enabled, keep_last) == [enabled |-> enabled, keep_last |-> keep_last]

\* Target names: deploy.yaml keys.  "p" is a prefix of "px".
Targets == { <<"p">>, <<"p", "x">>, <<"q">> }

----------------------------------------------------------------------------
(* BaseDeployer.validate_modules *)

\* The checks of one module, in the code's order.  The result is
\* [raised, errors]: raised holds the text of an exception that no except
\* clause of validate_modules catches.
ValidateOne(m, validations) ==
    LET e1 == IF validations.check_manifest /\ ~m.manifest
              THEN << <<m.name, ": __manifest__.py not found">> >> ELSE <<>>
        pyRaises == validations.check_python_syntax /\ m.py = "undecodable"
        e2 == IF validations.check_python_syntax /\ m.py = "syntax"
              THEN << <<m.name, ": Syntax error in ">> >> ELSE <<>>
        e3 == IF validations.check_xml_syntax /\ m.xml = "bad"
              THEN << <<m.name, ": Invalid XML in ">> >> ELSE <<>>
    IN  IF pyRaises
        THEN [raised |-> << <<"UnicodeDecodeError">> >>, errors |-> e1]
        ELSE [raised |-> <<>>, errors |-> e1 \o e2 \o e3]

RECURSIVE ValidateFrom(_, _, _, _)
ValidateFrom(mods, i, validations, acc) ==
    IF i > Len(mods) THEN [raised |-> <<>>, errors |-> acc]
    ELSE LET r == ValidateOne(mods[i], validations)
         IN  IF r.raised # <<>> THEN [raised |-> r.raised, errors |-> acc \o r.errors]
             ELSE ValidateFrom(mods, i + 1, validations, acc \o r.errors)

validate_modules(mods, validations) ==
    IF ~validations.present THEN [raised |-> <<>>, errors |-> <<>>]
    ELSE ValidateFrom(mods, 1, validations, <<>>)

----------------------------------------------------------------------------
(* BaseDeployer.create_backup and BaseDeployer._cleanup_old_backups *)

\* datetime.now().strftime("%Y%m%d_%H%M%S"): a fixed-width string of digits,
\* one string per second.  One digit stands for it.
Digits == <<"0", "1", "2", "3", "4", "5", "6", "7", "8", "9">>
Timestamp(now) == << Digits[now + 1] >>

\* f"{self.target_name}_{timestamp}"
SnapshotName(target, now) == target \o <<"_">> \o Timestamp(now)

\* str.startswith
StartsWith(s, prefix) ==
    Len(prefix) <= Len(s) /\ SubSeq(s, 1, Len(prefix)) = prefix

\* A snapshot directory under the backup root: its name, its modification
\* time and the module directories copied into it.  owner is history: the
\* target whose deployer created it (the code sees only the name).
Snapshot(name, owner, mtime, mods) ==
    [name |-> name, owner |-> owner, mtime |-> mtime, mods |-> mods]

\* [d for d in backup_path.iterdir()
\*    if d.is_dir() and d.name.startswith(self.target_name)]
Listed(dir, target) == { d \in dir : StartsWith(d.name, target) }

\* sorted(..., key=st_mtime, reverse=True): the sort is stable and iterdir
\* yields an arbitrary order, so entries of equal mtime come in any order.
SortedNewestFirst(S) ==
    { s \in [1..Cardinality(S) -> S] :
        /\ \A i, j \in 1..Cardinality(S) : i # j => s[i] # s[j]
        /\ \A i \in 1..(Cardinality(S) - 1) : s[i].mtime >= s[i + 1].mtime }

\* The outcomes of _cleanup_old_backups(backup_path, keep_last) on dir: one per
\* order of the sort and per point where shutil.rmtree raises (fail = 0: it
\* never raises; fail = j: it raises on the j-th directory to delete, which
\* stays).  The except clause logs a warning; nothing is returned.
cleanup_old_backups(dir, target, keep_last) ==
    UNION { LET old == SubSeq(s, keep_last + 1, Len(s))    \* backups[keep_last:]
            IN  { LET n == IF fail = 0 THEN Len(old) ELSE fail - 1
                      gone == { old[i] : i \in 1..n }
                  IN  [dir |-> dir \ gone,
                       logs |-> [i \in 1..n |->
                                   LogEntry(<<"Old backup deleted: ", old[i].name>>, "info")]
                                \o (IF fail = 0 THEN <<>>
                                    ELSE << LogEntry(<<"Error cleaning up backups: ">>,
                                                     "warning") >>)]
                  : fail \in 0..Len(old) }
          : s \in SortedNewestFirst(Listed(dir, target)) }

\* The module directory names copied by the loop of create_backup before
\* shutil.copytree raises, and whether it raises: it raises on the module the
\* environment fails (fail = i), and on a module whose name an earlier module
\* of the list already has (dst exists).
RECURSIVE CopyModules(_, _, _, _)
CopyModules(mods, i, fail, copied) ==
    IF i > Len(mods) THEN [raised |-> FALSE, copied |-> copied]
    ELSE IF fail = i \/ mods[i].name \in copied
         THEN [raised |-> TRUE, copied |-> copied]
         ELSE CopyModules(mods, i + 1, fail, copied \cup {mods[i].name})

\* create_backup with a pruning failure made fatal (used to test C22).
create_backup_prune_fatal(dir, target, bcfg, mods, now) ==
    IF ~bcfg.enabled THEN { [dir |-> dir, logs |-> <<>>, ret |-> TRUE] }
    ELSE
    UNION {
      LET name == SnapshotName(target, now)
          failed(d) == [dir |-> d, ret |-> FALSE,
                        logs |-> << LogEntry(<<"Error creating backup: ">>, "error") >>]
      IN  IF fail = -1 \/ \E d \in dir : d.name = name
          THEN { failed(dir) }
          ELSE LET c == CopyModules(mods, 1, fail, {})
                   snap == Snapshot(name, target, now, c.copied)
               IN  IF c.raised THEN { failed(dir \cup {snap}) }
                   ELSE { [dir |-> o.dir,
                           ret |-> \A i \in 1..Len(o.logs) : o.logs[i].level # "warning",
                           logs |-> << LogEntry(<<"Backup created at: ", name>>, "success") >>
                                    \o o.logs]
                          : o \in cleanup_old_backups(dir \cup {snap}, target,
                                                      bcfg.keep_last) }
      : fail \in -1..Len(mods) }

\* The outcomes of create_backup(modules) at time now on the backup root dir:
\* [dir, logs, ret].  fail = -1: backup_path.mkdir raises; fail = 0: no I/O
\* error; fail = i: copying the i-th module raises.
create_backup(dir, target, bcfg, mods, now) ==
    IF ~bcfg.enabled THEN { [dir |-> dir, logs |-> <<>>, ret |-> TRUE] }
    ELSE
    UNION {
      LET name == SnapshotName(target, now)
          failed(d) == [dir |-> d, ret |-> FALSE,
                        logs |-> << LogEntry(<<"Error creating backup: ">>, "error") >>]
      IN  IF fail = -1 \/ \E d \in dir : d.name = name     \* backup_dir.mkdir()
          THEN { failed(dir) }
          ELSE LET c == CopyModules(mods, 1, fail, {})
                   snap == Snapshot(name, target, now, c.copied)
               IN  IF c.raised THEN { failed(dir \cup {snap}) }
                   ELSE { [dir |-> o.dir, ret |-> TRUE,
                           logs |-> << LogEntry(<<"Backup created at: ", name>>, "success") >>
                                    \o o.logs]
                          : o \in cleanup_old_backups(dir \cup {snap}, target,
                                                      bcfg.keep_last) }
      : fail \in -1..Len(mods) }

----------------------------------------------------------------------------
(* The steps the backends implement: what they can return.                 *)
(* VPSDeployer and OdooSHDeployer wrap the bodies of pre_deploy_check,     *)
(* deploy_modules, post_deploy_actions and rollback in `except Exception`  *)
(* and return False or a failed DeploymentResult from the handler.         *)

Details(keys) == [NoDetails EXCEPT !.keys = keys]

Names(mods) == [i \in 1..Len(mods) |-> mods[i].name]

\* validate_config: the error lists of VPSDeployer / OdooSHDeployer.
ConfigErrorLists(b) ==
    IF b = "vps"
    THEN { <<>>,
           << <<"Missing 'connection.host'">> >>,
           << <<"Missing 'connection.user'">>,
              <<"No authentication method defined (ssh_key or password required)">> >> }
    ELSE { <<>>,
           << <<"Missing 'odoo_sh.project_id'">> >>,
           << <<"Either 'git_url' or 'api_token' must be configured">>,
              <<"Git is not installed">> >> }

\* pre_deploy_check: [ret, logs].  Every path that returns False logs an error.
PreDeployChecks(b) ==
    IF b = "vps"
    THEN { [ret |-> FALSE,
            logs |-> << LogEntry(<<"Testing SSH connection...">>, "info"),
                        LogEntry(<<"SSH connection failed: ">>, "error") >>],
           [ret |-> FALSE,
            logs |-> << LogEntry(<<"Testing SSH connection...">>, "info"),
                        LogEntry(<<"Pre-deploy check failed: ">>, "error") >>],
           [ret |-> TRUE,
            logs |-> << LogEntry(<<"Testing SSH connection...">>, "info"),
                        LogEntry(<<"SSH connection established">>, "success") >>] }
    ELSE { [ret |-> FALSE,
            logs |-> << LogEntry(<<"Checking Git configuration...">>, "info"),
                        LogEntry(<<"Git user.name not configured">>, "error") >>],
           [ret |-> TRUE,
            logs |-> << LogEntry(<<"Checking Git configuration...">>, "info"),
                        LogEntry(<<"Git configured">>, "success") >>] }

\* deploy_modules(modules): [result, logs].
DeployOutcomes(b, mods) ==
    IF b = "vps"
    THEN { [result |-> DeploymentResult(FALSE, <<"Failed to upload module: ", mods[i].name>>,
                                        NoDetails),
            logs |-> << LogEntry(<<"Preparing modules...">>, "info"),
                        LogEntry(<<"rsync failed: ">>, "error") >>]
           : i \in 1..Len(mods) }
         \cup
         { [result |-> DeploymentResult(FALSE, <<"Deployment error: ">>, NoDetails),
            logs |-> << LogEntry(<<"Preparing modules...">>, "info"),
                        LogEntry(<<"Deployment failed: ">>, "error") >>],
           [result |-> DeploymentResult(TRUE, <<"Modules deployed successfully">>,
                                        [Details({"modules"}) EXCEPT !.modules = Names(mods)]),
            logs |-> << LogEntry(<<"Preparing modules...">>, "info"),
                        LogEntry(<<"All modules transferred successfully">>, "success") >>] }
    ELSE { [result |-> DeploymentResult(FALSE, <<"Failed to prepare repository">>, NoDetails),
            logs |-> << LogEntry(<<"Preparing repository...">>, "info") >>],
           [result |-> DeploymentResult(TRUE, <<"No changes detected, nothing to deploy">>,
                                        NoDetails),
            logs |-> << LogEntry(<<"Preparing repository...">>, "info"),
                        LogEntry(<<"No changes to deploy">>, "warning") >>],
           [result |-> DeploymentResult(FALSE, <<"Failed to push: ">>, NoDetails),
            logs |-> << LogEntry(<<"Preparing repository...">>, "info"),
                        LogEntry(<<"Changes committed">>, "success") >>],
           [result |-> DeploymentResult(TRUE, <<"Modules deployed to Odoo.sh">>,
                                        [Details({"modules", "branch", "commit"})
                                           EXCEPT !.modules = Names(mods)]),
            logs |-> << LogEntry(<<"Preparing repository...">>, "info"),
                        LogEntry(<<"Pushed to Odoo.sh">>, "success") >>] }

\* post_deploy_actions(): [result, logs].
PostDeployOutcomes(b) ==
    IF b = "vps"
    THEN { [result |-> DeploymentResult(FALSE, <<"Failed to restart Docker container">>,
                                        NoDetails),
            logs |-> << LogEntry(<<"Restarting Odoo service...">>, "info"),
                        LogEntry(<<"Failed to restart container: ">>, "error") >>],
           [result |-> DeploymentResult(TRUE, <<"Post-deploy actions completed">>, NoDetails),
            logs |-> <<>>] }
    ELSE { [result |-> DeploymentResult(FALSE, <<"Post-deploy error: ">>, NoDetails),
            logs |-> << LogEntry(<<"Post-deploy actions failed: ">>, "error") >>],
           [result |-> DeploymentResult(TRUE, <<"Post-deploy actions completed">>, NoDetails),
            logs |-> <<>>] }

\* rollback(): [result, logs].
RollbackOutcomes(b) ==
    IF b = "vps"
    THEN { [result |-> DeploymentResult(FALSE, <<"No backups found for this target">>,
                                        NoDetails),
            logs |-> << LogEntry(<<"Initiating rollback...">>, "warning") >>],
           [result |-> DeploymentResult(TRUE, <<"Rollback completed successfully">>, NoDetails),
            logs |-> << LogEntry(<<"Initiating rollback...">>, "warning"),
                        LogEntry(<<"Rollback completed">>, "success") >>] }
    ELSE { [result |-> DeploymentResult(FALSE, <<"Failed to clone for rollback: ">>,
                                        NoDetails),
            logs |-> << LogEntry(<<"Initiating rollback on Odoo.sh...">>, "warning") >>],
           [result |-> DeploymentResult(TRUE, <<"Rollback completed successfully">>, NoDetails),
            logs |-> << LogEntry(<<"Initiating rollback on Odoo.sh...">>, "warning"),
                        LogEntry(<<"Rollback completed">>, "success") >>] }

----------------------------------------------------------------------------
(* BaseDeployer.execute, one action per numbered step of its body *)

Log(entries) == logs' = logs \o entries

\* The f"  ❌ {error}" entries logged for a list of errors.
ErrorEntries(errs) == [i \in 1..Len(errs) |-> LogEntry(<<"  x ">> \o errs[i], "error")]

Return(r) == /\ result' = <<r>>
             /\ pc' = "returned"

\* The tests execute makes on what a step returned.
ConfigInvalid_never(errs) == FALSE
ConfigInvalid(errs) == errs # <<>>              \* if config_errors:

ModulesInvalid_never(errs) == FALSE
ModulesInvalid(errs) == errs # <<>>             \* if validation_errors:

BackupFailed(ok) == ~ok                         \* if not self.create_backup(modules):
CheckFailed(ok) == ~ok                          \* if not self.pre_deploy_check():

DeployFailed_never(r) == FALSE
DeployFailed(r) == ~r.success                   \* if not deploy_result.success:

PostFailed(r) == ~r.success                     \* if not post_result.success:

\* What execute returns once rollback has returned: return deploy_result
ResultAfterRollback_rollbacks(deploy_r, rollback_r) == rollback_r
ResultAfterRollback(deploy_r, rollback_r) == deploy_r

\* The details of the final result: {'modules_deployed': ..., 'logs': self.logs}
FinalDetails_nologs(mods, lg) ==
    [Details({"modules_deployed"}) EXCEPT !.modules_deployed = Len(mods)]
FinalDetails(mods, lg) ==
    [Details({"modules_deployed", "logs"}) EXCEPT !.modules_deployed = Len(mods),
                                                  !.logs = lg]

\* What execute returns after post_deploy_actions, whatever that returned.
FinalResult_fatal(post_r, target, mods, lg) ==
    IF post_r.success
    THEN DeploymentResult(TRUE, <<"Deployment to ", target, " completed">>,
                          FinalDetails(mods, lg))
    ELSE post_r
FinalResult(post_r, target, mods, lg) ==
    DeploymentResult(TRUE, <<"Deployment to ", target, " completed">>,
                     FinalDetails(mods, lg))

\* 1. Validate configuration
execute_validate_config ==
    /\ pc = "validate_config"
    /\ \E errs \in ConfigErrorLists(backend) :
         /\ calls' = Append(calls, "validate_config")
         /\ config_errors' = <<errs>>
         /\ Log(<< LogEntry(<<"Validating configuration...">>, "info") >> \o ErrorEntries(errs))
         /\ IF ConfigInvalid(errs)
            THEN Return(DeploymentResult(FALSE, <<"Invalid configuration">>,
                                         [Details({"errors"}) EXCEPT !.errors = errs]))
            ELSE pc' = "validate_modules" /\ UNCHANGED result
    /\ UNCHANGED <<backend, target_name, config, modules, validation_errors, backup_ok,
                   check_ok, deploy_result, post_result, rollback_result, raised, remote>>
    /\ UNCHANGED <<disk_vars, pack_vars, ext_vars>>

\* 2. Validate modules.  validate_modules has no handler for what open() and
\* f.read() raise, and execute has none at all: the exception leaves execute.
execute_validate_modules ==
    /\ pc = "validate_modules"
    /\ LET v == validate_modules(modules, config.validations)
       IN  /\ calls' = Append(calls, "validate_modules")
           /\ IF v.raised # <<>>
              THEN /\ raised' = v.raised
                   /\ pc' = "raised"
                   /\ Log(<< LogEntry(<<"Validating modules...">>, "info") >>)
                   /\ UNCHANGED <<validation_errors, result>>
              ELSE /\ validation_errors' = <<v.errors>>
                   /\ Log(<< LogEntry(<<"Validating modules...">>, "info") >>
                          \o ErrorEntries(v.errors))
                   /\ UNCHANGED raised
                   /\ IF ModulesInvalid(v.errors)
                      THEN Return(DeploymentResult(FALSE, <<"Module validation failed">>,
                                                   [Details({"errors"}) EXCEPT !.errors = v.errors]))
                      ELSE pc' = "create_backup" /\ UNCHANGED result
    /\ UNCHANGED <<backend, target_name, config, modules, config_errors, backup_ok,
                   check_ok, deploy_result, post_result, rollback_result, remote>>
    /\ UNCHANGED <<disk_vars, pack_vars, ext_vars>>

\* 3. Create backup
execute_create_backup ==
    /\ pc = "create_backup"
    /\ \E o \in create_backup(backups, target_name, config.backup, modules, clock) :
         /\ calls' = Append(calls, "create_backup")
         /\ backups' = o.dir
         /\ backup_ok' = <<o.ret>>
         /\ Log(<< LogEntry(<<"Creating backup...">>, "info") >> \o o.logs)
         /\ IF BackupFailed(o.ret)
            THEN Return(DeploymentResult(FALSE, <<"Backup failed">>, NoDetails))
            ELSE pc' = "pre_deploy_check" /\ UNCHANGED result
    /\ UNCHANGED <<backend, target_name, config, modules, config_errors, validation_errors,
                   check_ok, deploy_result, post_result, rollback_result, raised, remote>>
    /\ UNCHANGED <<backups0, clock, last, pack_vars, ext_vars>>

\* 4. Pre-deploy check
execute_pre_deploy_check ==
    /\ pc = "pre_deploy_check"
    /\ \E o \in PreDeployChecks(backend) :
         /\ calls' = Append(calls, "pre_deploy_check")
         /\ remote' = Append(remote, "pre_deploy_check")
         /\ check_ok' = <<o.ret>>
         /\ Log(<< LogEntry(<<"Checking connectivity...">>, "info") >> \o o.logs)
         /\ IF CheckFailed(o.ret)
            THEN Return(DeploymentResult(FALSE, <<"Pre-deploy check failed">>, NoDetails))
            ELSE pc' = "deploy_modules" /\ UNCHANGED result
    /\ UNCHANGED <<backend, target_name, config, modules, config_errors, validation_errors,
                   backup_ok, deploy_result, post_result, rollback_result, raised>>
    /\ UNCHANGED <<disk_vars, pack_vars, ext_vars>>

\* 5. Deploy: the call of deploy_modules and the test of its result
execute_deploy_modules ==
    /\ pc = "deploy_modules"
    /\ \E o \in DeployOutcomes(backend, modules) :
         /\ calls' = Append(calls, "deploy_modules")
         /\ remote' = Append(remote, "deploy_modules")
         /\ deploy_result' = <<o.result>>
         /\ IF DeployFailed(o.result)
            THEN /\ Log(<< LogEntry(<<"Deploying modules...">>, "info") >> \o o.logs
                        \o << LogEntry(<<"Deployment failed, initiating rollback...">>,
                                       "error") >>)
                 /\ pc' = "rollback"
            ELSE /\ Log(<< LogEntry(<<"Deploying modules...">>, "info") >> \o o.logs)
                 /\ pc' = "post_deploy_actions"
    /\ UNCHANGED <<backend, target_name, config, modules, config_errors, validation_errors,
                   backup_ok, check_ok, post_result, rollback_result, result, raised>>
    /\ UNCHANGED <<disk_vars, pack_vars, ext_vars>>

\* 5. Deploy, failed: self.rollback(); return deploy_result
execute_rollback ==
    /\ pc = "rollback"
    /\ \E o \in RollbackOutcomes(backend) :
         /\ calls' = Append(calls, "rollback")
         /\ remote' = Append(remote, "rollback")
         /\ rollback_result' = <<o.result>>
         /\ Log(o.logs)
         /\ Return(ResultAfterRollback(deploy_result[1], o.result))
    /\ UNCHANGED <<backend, target_name, config, modules, config_errors, validation_errors,
                   backup_ok, check_ok, deploy_result, post_result, raised>>
    /\ UNCHANGED <<disk_vars, pack_vars, ext_vars>>

\* 6. Post-deploy, and the final result
execute_post_deploy_actions ==
    /\ pc = "post_deploy_actions"
    /\ \E o \in PostDeployOutcomes(backend) :
         /\ calls' = Append(calls, "post_deploy_actions")
         /\ remote' = Append(remote, "post_deploy_actions")
         /\ post_result' = <<o.result>>
         /\ Log(<< LogEntry(<<"Executing post-deploy actions...">>, "info") >> \o o.logs
                \o (IF PostFailed(o.result)
                    THEN << LogEntry(<<"Post-deploy failed">>, "warning") >>
                    ELSE <<>>))
         /\ Return(FinalResult(o.result, target_name, modules, logs'))
    /\ UNCHANGED <<backend, target_name, config, modules, config_errors, validation_errors,
                   backup_ok, check_ok, deploy_result, rollback_result, raised>>
    /\ UNCHANGED <<disk_vars, pack_vars, ext_vars>>

----------------------------------------------------------------------------
(* Spec: one run of execute *)

NoCall == [n |-> 0, target |-> <<>>, bcfg |-> BackupConfig(FALSE, 0), ret |-> FALSE]

\* The backup root a run can find: empty, or holding an earlier snapshot of
\* this target or of another one.
InitialBackupRoots(target) ==
    { {},
      { Snapshot(SnapshotName(target, 0), target, 0, {"m1"}) },
      { Snapshot(SnapshotName(<<"q", "a">>, 0), <<"q", "a">>, 0, {"m1"}) } }

\* The components that a specification does not exercise stay unconstructed.
ExtIdle ==
    /\ git = <<>>
    /\ vps = <<>>
    /\ scan = <<>>
    /\ host = <<>>
    /\ cli = <<>>

PackIdle ==
    /\ tree = {}
    /\ patterns = <<>>
    /\ staged = {}
    /\ prepared = FALSE

Init ==
    /\ pc = "validate_config"
    /\ backend \in {"vps", "odoo-sh"}
    /\ target_name \in {<<"p">>, <<"q">>}
    /\ config \in [backup : {BackupConfig(FALSE, DefaultKeepLast),
                             BackupConfig(TRUE, DefaultKeepLast), BackupConfig(TRUE, 0)},
                   validations : ValidationConfigs]
    /\ modules \in ModuleLists
    /\ logs = <<>>
    /\ calls = <<>>
    /\ config_errors = <<>>
    /\ validation_errors = <<>>
    /\ backup_ok = <<>>
    /\ check_ok = <<>>
    /\ deploy_result = <<>>
    /\ post_result = <<>>
    /\ rollback_result = <<>>
    /\ result = <<>>
    /\ raised = <<>>
    /\ remote = <<>>
    /\ backups \in InitialBackupRoots(target_name)
    /\ backups0 = backups
    /\ clock = 1
    /\ last = NoCall
    /\ PackIdle
    /\ ExtIdle

Next ==
    \/ execute_validate_config
    \/ execute_validate_modules
    \/ execute_create_backup
    \/ execute_pre_deploy_check
    \/ execute_deploy_modules
    \/ execute_rollback
    \/ execute_post_deploy_actions

Spec == Init /\ [][Next]_vars

----------------------------------------------------------------------------
(* Properties of execute (checked under Spec) *)

RECURSIVE Count(_, _)
Count(seq, x) ==
    IF seq = <<>> THEN 0
    ELSE (IF Head(seq) = x THEN 1 ELSE 0) + Count(Tail(seq), x)

Finished == pc \in {"returned", "raised"}

DeployReturnedFailure == deploy_result # <<>> /\ ~deploy_result[1].success

\* The six steps of the protocol, in the protocol's order.
StepOrder == << "validate_config", "validate_modules", "create_backup",
                "pre_deploy_check", "deploy_modules", "post_deploy_actions" >>

\* What a step returned counts as passing.
StepPassed(step) ==
    CASE step = "validate_config"     -> config_errors = << <<>> >>
      [] step = "validate_modules"    -> validation_errors = << <<>> >>
      [] step = "create_backup"       -> backup_ok = <<TRUE>>
      [] step = "pre_deploy_check"    -> check_ok = <<TRUE>>
      [] step = "deploy_modules"      -> deploy_result # <<>> /\ deploy_result[1].success
      [] step = "post_deploy_actions" -> post_result # <<>> /\ post_result[1].success

ProtocolCalls == SelectSeq(calls, LAMBDA c : c # "rollback")

\* C1: rollback() is invoked exactly once in a run in which deploy_modules
\* returned a failed result, and not at all in any other run: not when
\* validate_config, validate_modules, create_backup or pre_deploy_check
\* failed, and not when post_deploy_actions returned a failed result.
C1_RollbackOnlyOnDeployFailure ==
    /\ Count(calls, "rollback") <= 1
    /\ Count(calls, "rollback") = 1 => DeployReturnedFailure
    /\ (Finished /\ DeployReturnedFailure) => Count(calls, "rollback") = 1
    /\ (Finished /\ ~DeployReturnedFailure) => Count(calls, "rollback") = 0
    /\ (post_result # <<>> /\ ~post_result[1].success) => Count(calls, "rollback") = 0

C1_Witness ==
    /\ pc = "returned"
    /\ DeployReturnedFailure
    /\ Count(calls, "rollback") = 1

\* C2: the six steps are each invoked at most once and only in the protocol's
\* order, and a step is invoked only if every earlier step passed.
C2_StepsInOrder ==
    /\ Len(ProtocolCalls) <= Len(StepOrder)
    /\ ProtocolCalls = SubSeq(StepOrder, 1, Len(ProtocolCalls))
    /\ \A i \in 1..Len(ProtocolCalls) : \A j \in 1..(i - 1) : StepPassed(StepOrder[j])

C2_Witness ==
    /\ pc = "returned"
    /\ ProtocolCalls = StepOrder

\* C3: when deploy_modules returned a failed result, execute returns that very
\* result (same success flag, message and details), after rollback has run,
\* whatever rollback returned.
C3_DeployFailureSurfaced ==
    (pc = "returned" /\ DeployReturnedFailure) =>
        /\ rollback_result # <<>>
        /\ calls[Len(calls)] = "rollback"
        /\ result = deploy_result

C3_Witness ==
    /\ pc = "returned"
    /\ DeployReturnedFailure
    /\ rollback_result # <<>>
    /\ ~rollback_result[1].success
    /\ result = deploy_result

\* C4: execute returns a successful result exactly when validate_config and
\* validate_modules reported no errors, create_backup and pre_deploy_check
\* returned true and deploy_modules succeeded; a failed post_deploy_actions
\* result does not change that, and execute reports it with a warning-level
\* log entry only.
FiveStepsPassed ==
    \A i \in 1..5 : StepPassed(StepOrder[i])

ValidationFailed ==
    \/ config_errors # <<>> /\ config_errors[1] # <<>>
    \/ validation_errors # <<>> /\ validation_errors[1] # <<>>

ReportedErrors ==
    IF config_errors[1] # <<>> THEN config_errors[1] ELSE validation_errors[1]

C5_ValidationAbortsBeforeSideEffects ==
    ValidationFailed =>
        /\ pc = "returned"
        /\ ~result[1].success
        /\ "errors" \in result[1].details.keys
        /\ result[1].details.errors = ReportedErrors
        /\ backups = backups0
        /\ remote = <<>>
        /\ \A i \in 1..Len(calls) : calls[i] \in {"validate_config", "validate_modules"}

C5_Witness ==
    /\ pc = "returned"
    /\ validation_errors # <<>> /\ validation_errors[1] # <<>>
    /\ backups0 # {}
    /\ config.backup.enabled

\* C6: execute never lets an exception escape: when a step raises, execute
\* still returns a DeploymentResult with success = false.
C6_NoExceptionEscapes ==
    /\ pc # "raised"
    /\ raised # <<>> => (pc = "returned" /\ ~result[1].success)

HasEntry(level, message) ==
    \E i \in 1..Len(logs) : logs[i] = LogEntry(message, level)

HasEntryAfter(level, marker) ==
    \E i, j \in 1..Len(logs) :
        /\ i < j
        /\ logs[i].message = marker
        /\ logs[j].level = level

----------------------------------------------------------------------------
(* SpecBackup: the deployer of one of several targets that share a backup  *)
(* root calls create_backup on what earlier deploys left there.            *)

ExecIdle ==
    /\ pc = "idle"
    /\ backend = "vps"
    /\ target_name = <<>>
    /\ config = [backup |-> BackupConfig(FALSE, 0),
                 validations |-> Validations(FALSE, TRUE, TRUE, TRUE)]
    /\ modules = <<>>
    /\ calls = <<>>
    /\ config_errors = <<>>
    /\ validation_errors = <<>>
    /\ backup_ok = <<>>
    /\ check_ok = <<>>
    /\ deploy_result = <<>>
    /\ post_result = <<>>
    /\ rollback_result = <<>>
    /\ result = <<>>
    /\ raised = <<>>
    /\ remote = <<>>

idle_vars == <<pc, backend, target_name, config, modules, calls, config_errors,
               validation_errors, backup_ok, check_ok, deploy_result, post_result,
               rollback_result, result, raised, remote>>

BackupTargets == { <<"p">>, <<"p", "x">> }

BackupModules ==
    << Module("m1", TRUE, "ok", "ok"), Module("m2", FALSE, "ok", "ok") >>

\* The backup roots that earlier deploys leave behind: complete snapshots of
\* the targets, taken at seconds 0..MaxClock, at most MaxSnapshots of them
\* (each is what create_backup leaves when keep_last is large enough).
ReachableRoots ==
    { { Snapshot(SnapshotName(slot[1], slot[2]), slot[1], slot[2], {"m1", "m2"})
        : slot \in S }
      : S \in { T \in SUBSET (BackupTargets \X (0..MaxClock)) :
                  Cardinality(T) <= MaxSnapshots } }

InitBackup ==
    /\ ExecIdle
    /\ PackIdle
    /\ ExtIdle
    /\ logs = <<>>
    /\ backups \in ReachableRoots
    /\ backups0 = backups
    /\ clock = MaxClock
    /\ last = NoCall

\* One call of create_backup by the deployer of some target.
backup_call ==
    /\ last.n = 0
    /\ \E target \in BackupTargets, keep_last \in KeepLasts, enabled \in BOOLEAN :
         \E o \in create_backup(backups, target, BackupConfig(enabled, keep_last),
                                BackupModules, clock) :
            /\ backups' = o.dir
            /\ logs' = o.logs
            /\ last' = [n |-> 1, target |-> target,
                        bcfg |-> BackupConfig(enabled, keep_last), ret |-> o.ret]
    /\ UNCHANGED <<backups0, clock, idle_vars, pack_vars, ext_vars>>

NextBackup == backup_call

SpecBackup == InitBackup /\ [][NextBackup]_vars

SnapshotsOf(dir, target) == { d \in dir : d.owner = target }

\* create_backup made its snapshot and pruned without a deletion failing.
CreatedAndPruned ==
    /\ last.n = 1
    /\ last.bcfg.enabled
    /\ last.ret
    /\ \A i \in 1..Len(logs) : logs[i].level # "warning"

\* C8: given N existing snapshots of a target and a retention count K < N,
\* after create_backup creates a new snapshot exactly K snapshots of that
\* target remain, and the deleted ones are the oldest by modification time.
C8_RetentionKeepsK ==
    (/\ CreatedAndPruned
     /\ last.bcfg.keep_last < Cardinality(SnapshotsOf(backups0, last.target))) =>
        /\ Cardinality(SnapshotsOf(backups, last.target)) = last.bcfg.keep_last
        /\ \A gone \in SnapshotsOf(backups0, last.target) \ backups :
             \A kept \in SnapshotsOf(backups, last.target) : gone.mtime <= kept.mtime

\* C9: create_backup for target T, retention pruning included, never deletes
\* or modifies a snapshot that belongs to a different target sharing the same
\* backup root.
C9_OtherTargetsUntouched ==
    last.n = 1 =>
        \A d \in backups0 : d.owner # last.target => d \in backups

\* The snapshot directories the call made (backup_dir.mkdir() succeeded).
MadeByCall == backups \ backups0

\* C21: every backup snapshot directory that create_backup leaves in the
\* backup root, in every state after it returns, contains a copy of every
\* module that was passed to the call that created it.
C21_SnapshotsComplete ==
    last.n = 1 =>
        \A d \in MadeByCall :
            d.mods = { BackupModules[i].name : i \in 1..Len(BackupModules) }

LoggedLevel(level) == \E i \in 1..Len(logs) : logs[i].level = level

\* The copy loop raised: the snapshot directory was made and the except
\* clause of create_backup ran.
CopyStepRaised == MadeByCall # {} /\ LoggedLevel("error")

\* Something in the try block of create_backup raised before or in the copy
\* loop: making the backup root, making the snapshot directory, or a copy.
SnapshotCreationRaised == LoggedLevel("error") /\ backups0 \subseteq backups

DisabledIsNoOp ==
    (last.n = 1 /\ ~last.bcfg.enabled) =>
        last.ret /\ backups = backups0 /\ logs = <<>>

PruneFailureIsWarning ==
    (last.n = 1 /\ LoggedLevel("warning")) =>
        last.ret /\ ~LoggedLevel("error")

\* C22 as stated: create_backup returns false only when the snapshot copy
\* step raises; it returns true without creating or deleting anything when
\* backup is disabled, and a failure while pruning old snapshots is logged
\* as a warning and still yields true.
C22_FalseOnlyWhenCopyRaises ==
    /\ (last.n = 1 /\ ~last.ret) => CopyStepRaised
    /\ DisabledIsNoOp
    /\ PruneFailureIsWarning

\* C22 amended: create_backup returns false exactly when making the backup
\* root, making the snapshot directory or copying a module raises (nothing
\* is pruned then); disabled, it returns true and touches nothing; a pruning
\* failure is logged as a warning and still yields true.
C22_FalseOnlyWhenSnapshotCreationRaises ==
    /\ last.n = 1 => (~last.ret <=> SnapshotCreationRaised)
    /\ DisabledIsNoOp
    /\ PruneFailureIsWarning

\* A pruning failure after a complete snapshot: true is returned.
C22_Witness ==
    /\ last.n = 1 /\ last.bcfg.enabled /\ last.ret
    /\ LoggedLevel("warning")
    /\ MadeByCall # {}
    /\ backups0 \ backups # {}

----------------------------------------------------------------------------
(* The module packager.  File names and glob patterns are sequences of     *)
(* characters; a module tree is the set of its entries, each with its path *)
(* below the module root (a sequence of names) and whether it is a         *)
(* directory.                                                              *)

MANIFEST_MARKER == <<"_", "_", "m", "a", "n", "i", "f", "e", "s", "t", "_", "_", ".", "p", "y">>

INIT_MARKER == <<"_", "_", "i", "n", "i", "t", "_", "_", ".", "p", "y">>

get_default_excludes ==
    << <<"*", ".", "p", "y", "c">>,
       <<"*", ".", "p", "y", "o">>,
       <<"*", "*", "/", "_", "_", "p", "y", "c", "a", "c", "h", "e", "_", "_", "/", "*", "*">>,
       <<"*", ".", "s", "w", "p">>,
       <<"*", ".", "s", "w", "o">>,
       <<"*", "~">>,
       <<".", "g", "i", "t">>,
       <<".", "g", "i", "t", "i", "g", "n", "o", "r", "e">>,
       <<".", "D", "S", "_", "S", "t", "o", "r", "e">>,
       <<"T", "h", "u", "m", "b", "s", ".", "d", "b">>,
       <<"*", ".", "l", "o", "g">>,
       <<"*", ".", "t", "m", "p">>,
       <<"t", "e", "s", "t", "s">>,
       <<"t", "e", "s", "t", "_", "*", ".", "p", "y">>,
       <<"*", "_", "t", "e", "s", "t", ".", "p", "y">>,
       <<".", "v", "s", "c", "o", "d", "e">>,
       <<".", "i", "d", "e", "a">>,
       <<"n", "o", "d", "e", "_", "m", "o", "d", "u", "l", "e", "s">>,
       <<".", "e", "n", "v">>,
       <<"*", ".", "l", "o", "c", "a", "l">> >>

\* ModulePackager.__init__: an empty or missing list selects the defaults.
ExcludePatterns(exclude_patterns) ==
    IF exclude_patterns = <<>> THEN get_default_excludes ELSE exclude_patterns

\* fnmatch.fnmatch on a POSIX system for patterns without a bracket class:
\* '*' matches any run of characters, '?' any one character, every other
\* character itself; the whole name must match.
RECURSIVE fnmatch(_, _)
fnmatch(name, pattern) ==
    IF pattern = <<>> THEN name = <<>>
    ELSE IF Head(pattern) = "*"
         THEN \/ fnmatch(name, Tail(pattern))
              \/ name # <<>> /\ fnmatch(Tail(name), pattern)
    ELSE IF Head(pattern) = "?"
         THEN name # <<>> /\ fnmatch(Tail(name), Tail(pattern))
    ELSE /\ name # <<>>
         /\ Head(name) = Head(pattern)
         /\ fnmatch(Tail(name), Tail(pattern))

EndsWithSlash(pattern) == pattern # <<>> /\ pattern[Len(pattern)] = "/"

\* str.rstrip('/')
RECURSIVE RstripSlash(_)
RstripSlash(pattern) ==
    IF EndsWithSlash(pattern)
    THEN RstripSlash(SubSeq(pattern, 1, Len(pattern) - 1))
    ELSE pattern

Entry(path, isdir) == [path |-> path, isdir |-> isdir]

EntryName(item) == item.path[Len(item.path)]

\* A variant of should_exclude that tests files only and keeps every
\* directory.
should_exclude_files_only(item, pats) ==
    /\ EntryName(item) \notin {MANIFEST_MARKER, INIT_MARKER}
    /\ ~item.isdir
    /\ \E i \in 1..Len(pats) :
          /\ ~EndsWithSlash(pats[i])
          /\ fnmatch(EntryName(item), pats[i])

\* A variant of should_exclude without the exemption of the two markers.
should_exclude_no_exemption(item, pats) ==
    \E i \in 1..Len(pats) :
        IF EndsWithSlash(pats[i])
        THEN item.isdir /\ EntryName(item) = RstripSlash(pats[i])
        ELSE fnmatch(EntryName(item), pats[i])

should_exclude(item, pats) ==
    /\ EntryName(item) \notin {MANIFEST_MARKER, INIT_MARKER}
    /\ \E i \in 1..Len(pats) :
          IF EndsWithSlash(pats[i])
          THEN item.isdir /\ EntryName(item) = RstripSlash(pats[i])
          ELSE fnmatch(EntryName(item), pats[i])

\* source.iterdir()
Children(files, dir) ==
    { e \in files : /\ Len(e.path) = Len(dir) + 1
                    /\ SubSeq(e.path, 1, Len(dir)) = dir }

\* The entries that the recursive copy of directory dir creates below the
\* destination.
RECURSIVE copy_module_files(_, _, _)
copy_module_files(files, pats, dir) ==
    UNION { IF should_exclude(e, pats) THEN {}
            ELSE IF e.isdir THEN {e} \cup copy_module_files(files, pats, e.path)
            ELSE {e}
            : e \in Children(files, dir) }

\* The files and directories a module tree is drawn from.
SourceEntries ==
    { Entry(<<<<"_", "_", "m", "a", "n", "i", "f", "e", "s", "t", "_", "_", ".", "p", "y">>>>, FALSE),
      Entry(<<<<"_", "_", "i", "n", "i", "t", "_", "_", ".", "p", "y">>>>, FALSE),
      Entry(<<<<"a", ".", "p", "y">>>>, FALSE),
      Entry(<<<<"a", ".", "p", "y", "c">>>>, FALSE),
      Entry(<<<<"t", "e", "s", "t", "s">>>>, FALSE),
      Entry(<<<<"t", "e", "s", "t", "s">>>>, TRUE),
      Entry(<<<<"l", "i", "b">>>>, TRUE),
      Entry(<<<<"_", "_", "p", "y", "c", "a", "c", "h", "e", "_", "_">>>>, TRUE),
      Entry(<<<<"t", "e", "s", "t", "s">>, <<"_", "_", "i", "n", "i", "t", "_", "_", ".", "p", "y">>>>, FALSE),
      Entry(<<<<"t", "e", "s", "t", "s">>, <<"d", ".", "c", "s", "v">>>>, FALSE),
      Entry(<<<<"l", "i", "b">>, <<"a", ".", "p", "y", "c">>>>, FALSE),
      Entry(<<<<"l", "i", "b">>, <<"t", "e", "s", "t", "s">>>>, TRUE),
      Entry(<<<<"l", "i", "b">>, <<"t", "e", "s", "t", "s">>, <<"d", ".", "c", "s", "v">>>>, FALSE),
      Entry(<<<<"_", "_", "p", "y", "c", "a", "c", "h", "e", "_", "_">>, <<"a", ".", "p", "y", "c">>>>, FALSE) }

\* A directory tree: no path names two entries, and every entry lies in a
\* directory of the tree.
IsTree(files) ==
    /\ \A e, f \in files : e.path = f.path => e = f
    /\ \A e \in files :
          Len(e.path) > 1 =>
              Entry(SubSeq(e.path, 1, Len(e.path) - 1), TRUE) \in files

ModuleTrees == { files \in SUBSET SourceEntries : IsTree(files) }

\* The exclude_patterns a packager is constructed with.
PatternLists ==
    { <<>>,
      <<<<"*", ".", "p", "y", "c">>>>,
      <<<<"t", "e", "s", "t", "s">>>>,
      <<<<"t", "e", "s", "t", "s", "/">>>>,
      <<<<"*", ".", "p", "y", "c">>, <<"t", "e", "s", "t", "s", "/">>>>,
      <<<<"_", "_", "*">>>>,
      <<<<"*">>>>,
      <<<<"?", ".", "p", "y">>>>,
      <<<<"*", "/", "t", "e", "s", "t", "s", "/", "*">>>> }

InitPack ==
    /\ ExecIdle
    /\ ExtIdle
    /\ logs = <<>>
    /\ backups = {}
    /\ backups0 = {}
    /\ clock = 0
    /\ last = NoCall
    /\ tree \in ModuleTrees
    /\ patterns \in PatternLists
    /\ staged = {}
    /\ prepared = FALSE

\* prepare_module(module, target_dir) into the fresh directory that
\* prepare_modules made.
prepare_module ==
    /\ ~prepared
    /\ staged' = copy_module_files(tree, ExcludePatterns(patterns), <<>>)
    /\ prepared' = TRUE
    /\ UNCHANGED <<tree, patterns, idle_vars, logs, disk_vars, ext_vars>>

NextPack == prepare_module

SpecPack == InitPack /\ [][NextPack]_vars

IsMarker(e) == EntryName(e) \in {MANIFEST_MARKER, INIT_MARKER}

\* The name of an entry matches a pattern of the configured set.
NameMatches(e) ==
    \E i \in 1..Len(ExcludePatterns(patterns)) :
        LET p == ExcludePatterns(patterns)[i] IN
        IF EndsWithSlash(p)
        THEN e.isdir /\ EntryName(e) = RstripSlash(p)
        ELSE fnmatch(EntryName(e), p)

NoMatchStaged ==
    \A e \in staged : IsMarker(e) \/ ~NameMatches(e)

\* The directories of the source tree that contain entry e.
Ancestors(e) ==
    { Entry(SubSeq(e.path, 1, n), TRUE) : n \in 1..(Len(e.path) - 1) }

UnderExcluded(e) ==
    \E d \in Ancestors(e) : ~IsMarker(d) /\ NameMatches(d)

\* C10 (as stated): the staged copy contains no file or directory whose name
\* matches an exclude pattern (the markers apart), at any depth, and contains
\* every other file of the source tree.
C10_ExclusionAndEveryOtherFile ==
    prepared =>
        /\ NoMatchStaged
        /\ \A e \in tree :
              (~e.isdir /\ (IsMarker(e) \/ ~NameMatches(e))) => e \in staged

\* C10 (amended): the staged copy contains no file or directory whose name
\* matches an exclude pattern (the markers apart), at any depth, and contains
\* exactly the entries of the source tree that are neither excluded
\* themselves nor located under an excluded directory; what lies under an
\* excluded directory is dropped with it, markers included.
C10_ExclusionPrunesSubtrees ==
    prepared =>
        /\ NoMatchStaged
        /\ staged = { e \in tree : /\ IsMarker(e) \/ ~NameMatches(e)
                                   /\ ~UnderExcluded(e) }

C10_Witness ==
    /\ prepared
    /\ patterns = << <<"*", ".", "p", "y", "c">>, <<"t", "e", "s", "t", "s", "/">> >>
    /\ Entry(<< <<"l", "i", "b">>, <<"a", ".", "p", "y", "c">> >>, FALSE) \in tree \ staged
    /\ Entry(<< <<"l", "i", "b">>, <<"t", "e", "s", "t", "s">>, <<"d", ".", "c", "s", "v">> >>, FALSE) \in tree \ staged
    /\ Entry(<< <<"t", "e", "s", "t", "s">> >>, FALSE) \in staged
    /\ Entry(<< MANIFEST_MARKER >>, FALSE) \in staged

MarkerFiles == { e \in tree : IsMarker(e) /\ ~e.isdir }

\* C11 (as stated): for any exclude-pattern configuration, every file named
\* __manifest__.py or __init__.py in the module's source tree is present at
\* the same relative path in the staged copy.
C11_EveryMarkerStaged ==
    prepared => \A e \in MarkerFiles : e \in staged

\* C11 (amended): a marker is never excluded by its own name, whatever the
\* patterns; every marker file of the source tree that does not lie under an
\* excluded directory is present at the same relative path in the staged
\* copy, and a marker file under an excluded directory is dropped with it.
C11_MarkersOutsideExcludedDirsStaged ==
    prepared =>
        \A e \in MarkerFiles :
            /\ ~should_exclude(e, ExcludePatterns(patterns))
            /\ (e \in staged) <=> ~UnderExcluded(e)

C11_Witness ==
    /\ prepared
    /\ patterns = << <<"*">> >>
    /\ Entry(<< MANIFEST_MARKER >>, FALSE) \in staged
    /\ Entry(<< INIT_MARKER >>, FALSE) \in staged
    /\ Entry(<< <<"t", "e", "s", "t", "s">>, INIT_MARKER >>, FALSE) \in tree \ staged

----------------------------------------------------------------------------
(* SpecGit: OdooSHDeployer.deploy_modules, step by step, run against the   *)
(* same Git remote up to MaxRuns times in a row.  A top-level directory of *)
(* a Git tree is a record: whether it is there, whether it holds the       *)
(* .rkd_managed marker, and what its files are (a version tag).            *)

MaxRuns == 2        \* deploy_modules calls in a row against one remote

GitNames == {"a", "b"}

Absent == [present |-> FALSE, managed |-> FALSE, content |-> "none"]

Dir(managed, content) == [present |-> TRUE, managed |-> managed, content |-> content]

EmptyTree == [n \in GitNames |-> Absent]

\* A module dict of the list passed to deploy_modules: its name, whether
\* full_path exists, and the files that pass the packager's filter.
GitModule(name, exists, content) == [name |-> name, exists |-> exists, content |-> content]

GitModuleDicts ==
    { GitModule("a", TRUE, "v1"), GitModule("a", TRUE, "v2"),
      GitModule("b", TRUE, "v1"), GitModule("b", FALSE, "none") }

GitModuleLists == UNION { [1..n -> GitModuleDicts] : n \in 1..MaxModules }

\* The developer edits module "a" between two runs.
Edited(mods) ==
    [i \in 1..Len(mods) |->
        IF mods[i].name = "a"
        THEN GitModule("a", TRUE, IF mods[i].content = "v1" THEN "v2" ELSE "v1")
        ELSE mods[i]]

\* The remote repository: the target branch (<<>> while it does not exist;
\* otherwise the trees of its commits, the head first), the default branch,
\* and the number of commits pushed to the target branch.
Remotes ==
    { [branch |-> <<t>>, default |-> EmptyTree, head |-> 0]
        : t \in [GitNames -> {Absent, Dir(FALSE, "u"), Dir(TRUE, "v1")}] }
    \cup
    { [branch |-> <<>>, default |-> t, head |-> 0]
        : t \in {EmptyTree, [EmptyTree EXCEPT !["a"] = Dir(FALSE, "u")]} }

\* The deployer before a deploy_modules call: self.temp_repo = None.
GitStart(mode, mods, repo, run, prev) ==
    [pc |-> "mkdtemp", mode |-> mode, modules |-> mods, remote |-> repo,
     temp_repo |-> "none", work |-> EmptyTree, clone |-> EmptyTree,
     remote_defined |-> FALSE, on_branch |-> FALSE, i |-> 1,
     copied |-> <<>>, skipped |-> <<>>, staged |-> {}, committed |-> <<>>,
     pushed |-> FALSE, faulted |-> FALSE, pending |-> <<>>, result |-> <<>>,
     run |-> run, prev |-> prev, remote0 |-> repo, rollback |-> <<>>,
     cwd |-> "project"]

\* return <result>: the finally clause runs before the caller sees it.
GitReturn(g, r) == [g EXCEPT !.pending = <<r>>, !.pc = "finally"]

\* except Exception as e: return DeploymentResult(False, f"Deployment error: {e}")
GitRaise(g) ==
    GitReturn([g EXCEPT !.faulted = TRUE],
              DeploymentResult(FALSE, <<"Deployment error: ">>, NoDetails))

\* self.temp_repo = Path(tempfile.mkdtemp(prefix='rkd_odoo_sh_'))
git_mkdtemp ==
    /\ git # <<>> /\ git.pc = "mkdtemp"
    /\ \/ git' = [git EXCEPT !.temp_repo = "exists", !.pc = "prepare"]
       \/ git' = GitRaise(git)
    /\ UNCHANGED <<exec_vars, disk_vars, pack_vars, vps, scan, host, cli>>

\* _prepare_repository(): the working copies it can leave and what it returns.
\*   with a git_url: clone of the branch; or, when that clone fails, clone of
\*   the default branch and checkout -b; or failure: a clone error or a
\*   timeout of the second clone, after os.chdir(self.temp_repo), or a
\*   timeout of the first clone, before it;
\*   without one (API mode): os.chdir, git init and checkout -b, and no remote
\*   is added because the `if self.git_url` of that branch is false.
\* The clone names its remote 'origin', the default of odoo_sh.git_remote.
PrepareOutcomes(g) ==
    IF g.mode = "url"
    THEN (IF g.remote.branch # <<>>
          THEN { [ok |-> TRUE, work |-> g.remote.branch[1], on_branch |-> TRUE,
                  remote_defined |-> TRUE, faulted |-> FALSE, chdir |-> TRUE] }
          ELSE {})
         \cup
         { [ok |-> TRUE, work |-> g.remote.default, on_branch |-> FALSE,
            remote_defined |-> TRUE, faulted |-> g.remote.branch # <<>>,
            chdir |-> TRUE] }
         \cup
         { [ok |-> FALSE, work |-> EmptyTree, on_branch |-> FALSE,
            remote_defined |-> FALSE, faulted |-> TRUE, chdir |-> c]
           : c \in BOOLEAN }
    ELSE { [ok |-> TRUE, work |-> EmptyTree, on_branch |-> FALSE,
            remote_defined |-> FALSE, faulted |-> FALSE, chdir |-> TRUE],
           [ok |-> FALSE, work |-> EmptyTree, on_branch |-> FALSE,
            remote_defined |-> FALSE, faulted |-> TRUE, chdir |-> TRUE] }

git_prepare_repository ==
    /\ git # <<>> /\ git.pc = "prepare"
    /\ \E o \in PrepareOutcomes(git) :
          LET g == [git EXCEPT !.work = o.work, !.clone = o.work,
                               !.on_branch = o.on_branch,
                               !.remote_defined = o.remote_defined,
                               !.faulted = @ \/ o.faulted,
                               !.cwd = IF o.chdir THEN "temp_repo" ELSE @]
          IN  git' = IF o.ok
                     THEN [g EXCEPT !.pc = "copy"]
                     ELSE GitReturn(g, DeploymentResult(FALSE,
                                          <<"Failed to prepare repository">>, NoDetails))
    /\ UNCHANGED <<exec_vars, disk_vars, pack_vars, vps, scan, host, cli>>

\* The test that lets the loop remove and rewrite an existing destination.
Managed_always(d) == TRUE
Managed(d) == d.managed                  \* (dest_path / '.rkd_managed').exists()

\* One iteration of the copy loop, for module m.
CopyModule(g, m) ==
    IF ~m.exists THEN g                                          \* continue
    ELSE IF g.work[m.name].present /\ ~Managed(g.work[m.name])
    THEN [g EXCEPT !.skipped = Append(@, m.name)]                \* skip
    ELSE [g EXCEPT !.work[m.name] = Dir(TRUE, m.content),        \* rmtree, copy,
                   !.copied = Append(@, m.name)]                 \* touch marker

git_copy_module ==
    /\ git # <<>> /\ git.pc = "copy"
    /\ \/ LET g == CopyModule(git, git.modules[git.i])
          IN  git' = [g EXCEPT !.i = @ + 1,
                               !.pc = IF git.i = Len(git.modules) THEN "stage" ELSE "copy"]
       \/ git' = GitRaise(git)
    /\ UNCHANGED <<exec_vars, disk_vars, pack_vars, vps, scan, host, cli>>

\* A variant of StagedFiles that reports every deployed directory as staged.
StagedFiles_all(g) ==
    { n \in GitNames : /\ \E i \in 1..Len(g.modules) : g.modules[i].name = n
                       /\ g.work[n].present }

\* git add -A <name> for every module name, then git diff --cached --name-only:
\* the directories whose content differs from the commit that was cloned.
StagedFiles(g) ==
    { n \in GitNames : /\ \E i \in 1..Len(g.modules) : g.modules[i].name = n
                       /\ g.work[n] # g.clone[n] }

GitNamesOf(mods) == [i \in 1..Len(mods) |-> mods[i].name]

git_stage ==
    /\ git # <<>> /\ git.pc = "stage"
    /\ \/ git' = IF StagedFiles(git) = {}
                 THEN GitReturn(git, DeploymentResult(TRUE,
                          <<"No changes detected, nothing to deploy">>, NoDetails))
                 ELSE [git EXCEPT !.staged = StagedFiles(git), !.pc = "commit"]
       \/ git' = GitRaise(git)
    /\ UNCHANGED <<exec_vars, disk_vars, pack_vars, vps, scan, host, cli>>

\* git commit -m "[RocketDoo] Deploy modules: <module_names>..."
git_commit ==
    /\ git # <<>> /\ git.pc = "commit"
    /\ \/ git' = [git EXCEPT !.committed = << GitNamesOf(git.modules) >>, !.pc = "push"]
       \/ git' = GitReturn([git EXCEPT !.faulted = TRUE],
                           DeploymentResult(FALSE, <<"Failed to commit: ">>, NoDetails))
       \/ git' = GitRaise(git)
    /\ UNCHANGED <<exec_vars, disk_vars, pack_vars, vps, scan, host, cli>>

\* git push <git_remote> <branch> can be accepted when the remote is defined
\* in the working copy and the push is a fast-forward.
PushCanSucceed(g) ==
    /\ g.remote_defined
    /\ g.on_branch \/ g.remote.branch = <<>>

git_push ==
    /\ git # <<>> /\ git.pc = "push"
    /\ \/ /\ PushCanSucceed(git)
          /\ git' = GitReturn(
                 [git EXCEPT !.remote.branch = << git.work >> \o @,
                             !.remote.head = @ + 1,
                             !.pushed = TRUE],
                 DeploymentResult(TRUE, <<"Modules deployed to Odoo.sh">>,
                     [Details({"modules", "branch", "commit"})
                        EXCEPT !.modules = GitNamesOf(git.modules)]))
       \/ git' = GitReturn([git EXCEPT !.faulted = @ \/ PushCanSucceed(git)],
                           DeploymentResult(FALSE, <<"Failed to push: ">>, NoDetails))
       \/ git' = GitRaise(git)
    /\ UNCHANGED <<exec_vars, disk_vars, pack_vars, vps, scan, host, cli>>

\* finally: if self.temp_repo and self.temp_repo.exists(): shutil.rmtree(...)
Cleanup_keeps(temp_repo) == temp_repo
Cleanup(temp_repo) == IF temp_repo = "exists" THEN "removed" ELSE temp_repo

git_finally ==
    /\ git # <<>> /\ git.pc = "finally"
    /\ git' = [git EXCEPT !.temp_repo = Cleanup(git.temp_repo),
                          !.result = git.pending,
                          !.pc = "returned"]
    /\ UNCHANGED <<exec_vars, disk_vars, pack_vars, vps, scan, host, cli>>

\* git revert --no-edit HEAD: the tree of the commit below the head (the empty
\* tree when the head is the root commit).
RevertHead(branch) == IF Len(branch) >= 2 THEN branch[2] ELSE EmptyTree

\* The process stands in a directory that no longer exists: deploy_modules
\* changed into its working copy and its finally clause removed it.
CwdDeleted(g) == g.cwd = "temp_repo" /\ g.temp_repo = "removed"

\* OdooSHDeployer.rollback(): what it returns and the remote it leaves.
\*   without a git_url the argument list of `git clone` holds None and
\*   subprocess.run raises, which the outer except clause reports;
\*   the clone fails when the branch does not exist, when git runs in a
\*   deleted working directory, or on an I/O error;
\*   the revert or the push of the revert can fail; otherwise the revert of
\*   the head commit of the branch is pushed.
GitRollbackOutcomes(g) ==
    IF g.mode # "url"
    THEN { [remote |-> g.remote,
            result |-> DeploymentResult(FALSE, <<"Rollback error: ">>, NoDetails)] }
    ELSE { [remote |-> g.remote,
            result |-> DeploymentResult(FALSE, <<"Failed to clone for rollback: ">>,
                                        NoDetails)] }
         \cup
         (IF g.remote.branch = <<>> \/ CwdDeleted(g) THEN {}
          ELSE { [remote |-> g.remote,
                  result |-> DeploymentResult(FALSE, <<"Failed to revert: ">>, NoDetails)],
                 [remote |-> g.remote,
                  result |-> DeploymentResult(FALSE, <<"Failed to push rollback: ">>,
                                              NoDetails)],
                 [remote |-> [g.remote EXCEPT
                                !.branch = << RevertHead(g.remote.branch) >> \o @,
                                !.head = @ + 1],
                  result |-> DeploymentResult(TRUE, <<"Rollback completed successfully">>,
                                              NoDetails)] })

\* execute calls rollback() when deploy_modules returned a failed result.
git_rollback ==
    /\ git # <<>> /\ git.pc = "returned"
    /\ ~git.result[1].success
    /\ git.rollback = <<>>
    /\ \E o \in GitRollbackOutcomes(git) :
          git' = [git EXCEPT !.remote = o.remote, !.rollback = << o.result >>]
    /\ UNCHANGED <<exec_vars, disk_vars, pack_vars, vps, scan, host, cli>>

\* The next deploy of the same target: the same module list, unchanged or
\* edited in between.
git_deploy_again ==
    /\ git # <<>> /\ git.pc = "returned"
    /\ git.run < MaxRuns
    /\ \E mods \in {git.modules, Edited(git.modules)} :
          git' = GitStart(git.mode, mods, git.remote, git.run + 1,
                          << [result |-> git.result[1], head |-> git.remote.head,
                              modules |-> git.modules] >>)
    /\ UNCHANGED <<exec_vars, disk_vars, pack_vars, vps, scan, host, cli>>

InitGit ==
    /\ ExecIdle
    /\ PackIdle
    /\ logs = <<>>
    /\ backups = {}
    /\ backups0 = {}
    /\ clock = 0
    /\ last = NoCall
    /\ vps = <<>>
    /\ scan = <<>>
    /\ host = <<>>
    /\ cli = <<>>
    /\ \E mode \in {"url", "api"}, mods \in GitModuleLists, repo \in Remotes :
          git = GitStart(mode, mods, repo, 1, <<>>)

NextGit ==
    \/ git_mkdtemp
    \/ git_prepare_repository
    \/ git_copy_module
    \/ git_stage
    \/ git_commit
    \/ git_push
    \/ git_finally
    \/ git_rollback
    \/ git_deploy_again

SpecGit == InitGit /\ [][NextGit]_vars

InSeq(x, seq) == \E i \in 1..Len(seq) : seq[i] = x

\* The destination of module name n existed in the clone without the marker.
Unmanaged(n) == git.clone[n].present /\ ~git.clone[n].managed

CopyLoopDone == git # <<>> /\ git.pc \in {"stage", "commit", "push"}

\* The last module of the list that has name n and an existing source.
IsLastOf(i, n) ==
    /\ git.modules[i].name = n /\ git.modules[i].exists
    /\ \A j \in (i + 1)..Len(git.modules) :
          ~(git.modules[j].name = n /\ git.modules[j].exists)

\* C12: a destination directory that exists in the working copy without the
\* managed marker is left untouched and its module is skipped, while the
\* remaining modules are still copied; an existing directory is removed and
\* rewritten only if it holds the managed marker.
C12_UnmanagedSkippedRestCopied ==
    (git # <<>> /\ git.pc \notin {"mkdtemp", "prepare"}) =>
        /\ \A n \in GitNames :
              Unmanaged(n) => /\ git.work[n] = git.clone[n]
                              /\ ~InSeq(n, git.copied)
                              /\ (git.pushed => git.remote.branch[1][n] = git.clone[n])
        /\ \A n \in GitNames :
              git.work[n] # git.clone[n] => (~git.clone[n].present \/ git.clone[n].managed)
        /\ CopyLoopDone =>
              \A i \in 1..Len(git.modules) :
                  LET m == git.modules[i] IN
                  m.exists =>
                      IF Unmanaged(m.name)
                      THEN InSeq(m.name, git.skipped)
                      ELSE /\ InSeq(m.name, git.copied)
                           /\ IsLastOf(i, m.name) =>
                                 git.work[m.name] = Dir(TRUE, m.content)

C12_Witness ==
    /\ git # <<>> /\ git.pc = "returned"
    /\ git.pushed
    /\ Unmanaged("b") /\ InSeq("b", git.skipped)
    /\ git.clone["a"] = Dir(TRUE, "v1")
    /\ git.remote.branch[1]["a"] = Dir(TRUE, "v2")
    /\ git.remote.branch[1]["b"] = Dir(FALSE, "u")

\* The run that just returned repeated the previous, successful run on an
\* unchanged module set, and nothing failed in its environment.
RepeatedUnchanged ==
    /\ git # <<>> /\ git.pc = "returned"
    /\ git.prev # <<>>
    /\ git.prev[1].result.success
    /\ git.modules = git.prev[1].modules
    /\ ~git.faulted

\* C13: deploying the same unchanged module set twice in a row to the same
\* Git-push target, the second run stages nothing, creates no commit, pushes
\* nothing and reports success; the remote branch head after the second run
\* equals the head after the first.
C13_SecondRunIsNoOp ==
    RepeatedUnchanged =>
        /\ git.staged = {}
        /\ git.committed = <<>>
        /\ ~git.pushed
        /\ git.result[1].success
        /\ git.result[1].message = <<"No changes detected, nothing to deploy">>
        /\ git.remote.head = git.prev[1].head

C13_Witness ==
    /\ RepeatedUnchanged
    /\ git.prev[1].head = 1
    /\ git.prev[1].result.message = <<"Modules deployed to Odoo.sh">>
    /\ git.copied # <<>>
    /\ git.remote.head = 1

\* C18: after deploy_modules returns, for every outcome (successful push,
\* nothing staged, failure to prepare the repository, commit or push failure,
\* exception or timeout), the temporary working copy created by that call no
\* longer exists.
C18_WorkingCopyRemoved ==
    (git # <<>> /\ git.pc = "returned") =>
        /\ git.temp_repo # "exists"
        /\ git.result # <<>>

C18_Witness ==
    /\ git # <<>> /\ git.pc = "returned"
    /\ git.temp_repo = "removed"
    /\ git.committed # <<>>
    /\ git.result[1].message = <<"Deployment error: ">>

\* C23: when the Git-push transfer creates a commit, the module names listed
\* in its commit message are exactly the modules that this run copied into
\* the working copy (not the ones it skipped as unmanaged or because their
\* source path was missing).
C23_CommitListsDeployed ==
    (git # <<>> /\ git.committed # <<>>) => git.committed[1] = git.copied

\* C26: when deploy_modules fails, so that no commit of this run reached the
\* remote, the rollback that execute then triggers leaves the content of the
\* remote branch as it was before the run started.
C26_RollbackLeavesRemote ==
    (git # <<>> /\ git.rollback # <<>>) =>
        /\ ~git.pushed
        /\ git.remote = git.remote0

\* C29: for every configuration that validate_config accepts, a git_url or
\* an API token without one, the working copy prepared by deploy_modules
\* has the configured remote defined when the push step is attempted.
C29_RemoteDefinedBeforePush ==
    (git # <<>> /\ git.pc = "push") => git.remote_defined

----------------------------------------------------------------------------
(* SpecVps: invocations of `deploy run` for one VPS target, each a new     *)
(* process that constructs a VPSDeployer, validates its configuration,     *)
(* checks connectivity and calls deploy_modules; and, beside them,         *)
(* ModulePackager.create_archive.  The project directory (secrets file,    *)
(* staging directories under the temporary directory) outlives a process.  *)

MaxInvocations == 2     \* invocations for the same target, one after the other

\* connection.ssh_key: "none" | "key"; connection.password: "none" (missing
\* or empty), "literal", or "envref" (of the form ${VAR}).
VpsConfigs ==
    [ssh_key : {"none", "key"}, password : {"none", "literal", "envref"},
     host : BOOLEAN, deployment_type : {"docker", "native", "other"}]

\* What the process finds around it: whether ${VAR} is set, whether the key
\* file exists, whether sshpass is installed.
VpsEnvs == [var_set : BOOLEAN, key_file : BOOLEAN, sshpass : BOOLEAN]

NoSecret == [exists |-> FALSE, content |-> "none", mode |-> "none"]

VpsModuleLists == UNION { [1..n -> {"a", "b"}] : n \in 1..MaxModules }

\* A new process for the target.
VpsProcess(op, cfg, env, mods, secrets, leaked, invocation, prev) ==
    [pc |-> IF op = "deploy" THEN "construct" ELSE "prepare_modules",
     op |-> op, cfg |-> cfg, env |-> env, modules |-> mods,
     secrets |-> secrets, leaked |-> leaked, invocation |-> invocation,
     prev |-> prev,
     auth_method |-> "unset", password |-> "none", prompts |-> 0,
     net_calls |-> 0, raised |-> <<>>, config_errors |-> <<>>,
     staging |-> "none", i |-> 1, uploaded |-> <<>>, result |-> <<>>]

\* if self.ssh_key and self.password:
BothDefined_never(ssh_key, password) == FALSE
BothDefined(ssh_key, password) == ssh_key # "none" /\ password # "none"

\* The password after the ${VAR} resolution of __init__.
Resolved(cfg, env) ==
    CASE cfg.password = "literal" -> "pw"
      [] cfg.password = "envref"  -> IF env.var_set THEN "pw" ELSE "none"
      [] OTHER                    -> "none"

AuthMethod(cfg) ==
    IF cfg.ssh_key # "none" THEN "ssh_key"
    ELSE IF cfg.password # "none" THEN "password"
    ELSE "none"

\* VPSDeployer.__init__; typed is what getpass returns when it is called.
Construct(v, typed) ==
    IF BothDefined(v.cfg.ssh_key, v.cfg.password)
    THEN [v EXCEPT !.pc = "raised",
                   !.raised = <<"ValueError", "both ssh_key and password defined">>]
    ELSE LET w == [v EXCEPT !.auth_method = AuthMethod(v.cfg),
                            !.password = Resolved(v.cfg, v.env)]
         IN  IF w.auth_method = "password" /\ w.password = "none"
             THEN IF typed = "none"
                  THEN [w EXCEPT !.prompts = @ + 1, !.pc = "raised",
                                 !.raised = <<"ValueError", "no password provided">>]
                  ELSE [w EXCEPT !.prompts = @ + 1, !.password = typed,
                                 !.secrets = [exists |-> TRUE, content |-> typed,
                                              mode |-> "0600"],
                                 !.pc = "validate_config"]
             ELSE [w EXCEPT !.pc = "validate_config"]

vps_construct ==
    /\ vps # <<>> /\ vps.pc = "construct"
    /\ \E typed \in {"none", "pw"} : vps' = Construct(vps, typed)
    /\ UNCHANGED <<exec_vars, disk_vars, pack_vars, git, scan, host, cli>>

Opt(cond, error) == IF cond THEN <<error>> ELSE <<>>

\* VPSDeployer.validate_config (connection.user is always configured here;
\* the docker and native settings keep their defaults).
VpsValidateConfig(v) ==
    Opt(~v.cfg.host, "Missing 'connection.host'")
    \o Opt(v.auth_method = "none", "No authentication method defined")
    \o (IF v.auth_method = "ssh_key"
        THEN IF v.cfg.ssh_key = "none"
             THEN <<"SSH key authentication selected but 'ssh_key' not configured">>
             ELSE Opt(~v.env.key_file, "SSH key not found")
        ELSE IF v.auth_method = "password"
        THEN IF v.password = "none"
             THEN <<"Password authentication selected but 'password' not configured">>
             ELSE Opt(~v.env.sshpass, "Password authentication requires 'sshpass'")
        ELSE <<>>)
    \o Opt(v.cfg.deployment_type \notin {"docker", "native"}, "Invalid deployment_type")

\* execute: validate_config, and the early return on errors.
vps_validate_config ==
    /\ vps # <<>> /\ vps.pc = "validate_config"
    /\ LET errs == VpsValidateConfig(vps)
       IN  vps' = [vps EXCEPT !.config_errors = <<errs>>,
                              !.pc = IF errs # <<>> THEN "returned" ELSE "pre_deploy_check",
                              !.result = IF errs # <<>>
                                         THEN << DeploymentResult(FALSE,
                                                   <<"Configuration validation failed">>,
                                                   [Details({"errors"}) EXCEPT !.errors = errs]) >>
                                         ELSE <<>>]
    /\ UNCHANGED <<exec_vars, disk_vars, pack_vars, git, scan, host, cli>>

\* pre_deploy_check: the first SSH connection to the host.
vps_pre_deploy_check ==
    /\ vps # <<>> /\ vps.pc = "pre_deploy_check"
    /\ \E ok \in BOOLEAN :
          vps' = [vps EXCEPT !.net_calls = @ + 1,
                             !.pc = IF ok THEN "prepare_modules" ELSE "returned",
                             !.result = IF ok THEN <<>>
                                        ELSE << DeploymentResult(FALSE,
                                                  <<"Pre-deployment checks failed">>,
                                                  NoDetails) >>]
    /\ UNCHANGED <<exec_vars, disk_vars, pack_vars, git, scan, host, cli>>

\* How the operation ends when an exception reaches it: deploy_modules
\* catches it and returns a failed result, create_archive lets it go.
VpsException(v) ==
    IF v.op = "deploy"
    THEN [v EXCEPT !.pc = "returned",
                   !.result = << DeploymentResult(FALSE, <<"Deployment error: ">>,
                                                  NoDetails) >>]
    ELSE [v EXCEPT !.pc = "raised", !.raised = <<"Exception">>]

\* ModulePackager.prepare_modules: mkdtemp, then prepare_module for each
\* module; an exception of a copy is re-raised.
vps_prepare_modules ==
    /\ vps # <<>> /\ vps.pc = "prepare_modules"
    /\ \/ vps' = [vps EXCEPT !.staging = "exists",
                             !.pc = IF vps.op = "deploy" THEN "upload" ELSE "tar"]
       \/ vps' = VpsException([vps EXCEPT !.staging = "exists"])
    /\ UNCHANGED <<exec_vars, disk_vars, pack_vars, git, scan, host, cli>>

\* What deploy_modules does with the staging directory once every module is
\* uploaded, and what create_archive does once the archive is written.
RemoveStaging(staging) == "removed"                  \* shutil.rmtree(temp_dir)

\* One iteration of the upload loop of deploy_modules; after the last one,
\* the clean-up and the successful return.
vps_upload_module ==
    /\ vps # <<>> /\ vps.pc = "upload"
    /\ \/ LET v == [vps EXCEPT !.uploaded = Append(@, vps.modules[vps.i]),
                               !.net_calls = @ + 1,
                               !.i = @ + 1]
          IN  vps' = IF vps.i < Len(vps.modules) THEN v
                     ELSE [v EXCEPT !.staging = RemoveStaging(@),
                                    !.pc = "returned",
                                    !.result = << DeploymentResult(TRUE,
                                                    <<"Modules deployed successfully">>,
                                                    [Details({"modules"})
                                                       EXCEPT !.modules = vps.modules]) >>]
       \/ vps' = [vps EXCEPT !.net_calls = @ + 1,
                             !.pc = "returned",
                             !.result = << DeploymentResult(FALSE,
                                             <<"Failed to upload module: ", vps.modules[vps.i]>>,
                                             NoDetails) >>]
       \/ vps' = VpsException([vps EXCEPT !.net_calls = @ + 1])
    /\ UNCHANGED <<exec_vars, disk_vars, pack_vars, git, scan, host, cli>>

\* create_archive after prepare_modules: write the archive, remove the
\* staging directory, return the path.
pack_create_archive ==
    /\ vps # <<>> /\ vps.pc = "tar"
    /\ \/ vps' = [vps EXCEPT !.staging = RemoveStaging(@),
                             !.pc = "returned",
                             !.result = << DeploymentResult(TRUE, <<"archive">>, NoDetails) >>]
       \/ vps' = VpsException(vps)
    /\ UNCHANGED <<exec_vars, disk_vars, pack_vars, git, scan, host, cli>>

\* The user runs the same command again: a new process, the same
\* configuration and environment, the files the earlier one left.
vps_invoke_again ==
    /\ vps # <<>> /\ vps.pc \in {"returned", "raised"}
    /\ vps.invocation < MaxInvocations
    /\ vps' = VpsProcess(vps.op, vps.cfg, vps.env, vps.modules, vps.secrets,
                         vps.leaked + (IF vps.staging = "exists" THEN 1 ELSE 0),
                         vps.invocation + 1,
                         << [prompts |-> vps.prompts, password |-> vps.password,
                             pc |-> vps.pc] >>)
    /\ UNCHANGED <<exec_vars, disk_vars, pack_vars, git, scan, host, cli>>

InitVps ==
    /\ ExecIdle
    /\ PackIdle
    /\ logs = <<>>
    /\ backups = {}
    /\ backups0 = {}
    /\ clock = 0
    /\ last = NoCall
    /\ git = <<>>
    /\ scan = <<>>
    /\ host = <<>>
    /\ cli = <<>>
    /\ \E op \in {"deploy", "archive"}, cfg \in VpsConfigs, env \in VpsEnvs,
          mods \in VpsModuleLists :
          vps = VpsProcess(op, cfg, env, mods, NoSecret, 0, 1, <<>>)

NextVps ==
    \/ vps_construct
    \/ vps_validate_config
    \/ vps_pre_deploy_check
    \/ vps_prepare_modules
    \/ vps_upload_module
    \/ pack_create_archive
    \/ vps_invoke_again

SpecVps == InitVps /\ [][NextVps]_vars

VpsBothConfigured ==
    vps # <<>> /\ vps.op = "deploy" /\ vps.cfg.ssh_key # "none" /\ vps.cfg.password # "none"

\* C14: a VPS deployer configured with both a key path and a password raises
\* a configuration error at construction, before any network call; and
\* whenever validate_config returns no errors, exactly one authentication
\* method (key or password) is active.
C14_AuthExclusive ==
    /\ VpsBothConfigured =>
          /\ vps.pc \in {"construct", "raised"}
          /\ vps.net_calls = 0
          /\ vps.prompts = 0
          /\ vps.pc = "raised" => vps.raised[1] = "ValueError"
    /\ (vps # <<>> /\ vps.config_errors = << <<>> >>) =>
          \/ /\ vps.auth_method = "ssh_key"
             /\ vps.cfg.ssh_key # "none" /\ vps.cfg.password = "none"
          \/ /\ vps.auth_method = "password"
             /\ vps.cfg.ssh_key = "none" /\ vps.password # "none"

C14_Witness ==
    /\ VpsBothConfigured
    /\ vps.pc = "raised"
    /\ vps.cfg.password = "envref"
    /\ vps.net_calls = 0

\* C19: a staging directory created by prepare_modules no longer exists
\* once the operation that created it, VPSDeployer.deploy_modules or
\* ModulePackager.create_archive, has returned or raised.
C19_StagingAlwaysRemoved ==
    (vps # <<>> /\ vps.pc \in {"returned", "raised"}) =>
        /\ vps.staging # "exists"
        /\ vps.leaked = 0

\* A later invocation follows one that prompted for the password and stored it.
AfterPromptedInvocation ==
    /\ vps # <<>> /\ vps.pc \notin {"construct", "raised"}
    /\ vps.op = "deploy"
    /\ vps.prev # <<>>
    /\ vps.prev[1].prompts = 1 /\ vps.prev[1].password = "pw"

\* C20: when password authentication is selected and no password is
\* resolvable, the password entered at the prompt is persisted to the
\* target's owner-only secrets file, and a later deploy invocation for the
\* same target reuses the password from that file instead of prompting again.
C20_StoredPasswordReused ==
    /\ (vps # <<>> /\ vps.prompts = 1 /\ vps.pc # "raised") =>
          vps.secrets = [exists |-> TRUE, content |-> vps.password, mode |-> "0600"]
    /\ AfterPromptedInvocation =>
          /\ vps.prompts = 0
          /\ vps.password = vps.secrets.content

----------------------------------------------------------------------------
(* SpecScan: one ModuleScanner over an addons directory that changes while *)
(* the scanner lives.  Paths are sequences of characters; a descriptor     *)
(* (OdooModule object) is identified by its path and by the scan that      *)
(* created it.                                                             *)

MaxScanCalls == 3       \* calls of scan, get_installable_modules, validate_all
MaxChanges == 1         \* changes of the addons directory in between

A_MOD == <<"r", "/", "a", "_", "m", "o", "d">>
B_MOD == <<"r", "/", "b", "-", "m", "o", "d">>
C_MOD == <<"r", "/", "c", "_", "m", "o", "d">>
D_MOD == <<"r", "/", "a", "_", "m", "o", "d", "/", "t", "e", "s", "t", "s", "/", "d", "_", "m", "o", "d">>

ScanDirs == {A_MOD, B_MOD, C_MOD, D_MOD}

\* What a directory of the addons tree can be:
\*   "nodir"           it does not exist
\*   "nomanifest"      a directory without __manifest__.py
\*   "full"            a manifest with name, version, depends and data
\*   "noninstallable"  the same with 'installable': False
\*   "partial"         a manifest with 'name' only
\*   "unparseable"     a __manifest__.py that ast.parse rejects
DirStates(d) ==
    CASE d = A_MOD -> {"full", "noninstallable", "partial"}
      [] d = B_MOD -> {"nodir", "full", "unparseable"}
      [] d = C_MOD -> {"nomanifest", "unparseable"}
      [] OTHER     -> {"nodir", "full"}

AddonsTrees == { f \in [ScanDirs -> {"nodir", "nomanifest", "full", "noninstallable",
                                      "partial", "unparseable"}] :
                   \A d \in ScanDirs : f[d] \in DirStates(d) }

\* ModuleScanner.__init__: exclude_patterns or the four defaults.
ScannerDefaultExcludes ==
    << <<"*", "/", "t", "e", "s", "t", "s", "/", "*">>,
       <<"*", "/", "_", "_", "p", "y", "c", "a", "c", "h", "e", "_", "_", "/", "*">>,
       <<"*", "/", ".", "g", "i", "t", "/", "*">>,
       <<"*", "/", "n", "o", "d", "e", "_", "m", "o", "d", "u", "l", "e", "s", "/", "*">> >>

ScannerPatterns(exclude_patterns) ==
    IF exclude_patterns = <<>> THEN ScannerDefaultExcludes ELSE exclude_patterns

ScannerPatternLists == { <<>>, << <<"*", "/", "a", "_", "m", "o", "d">> >> }

\* ModuleScanner.should_exclude: fnmatch on the whole path string.
scanner_should_exclude(path, pats) ==
    \E i \in 1..Len(pats) : fnmatch(path, pats[i])

\* path.name
RECURSIVE Basename(_)
Basename(path) ==
    IF \E i \in 1..Len(path) : path[i] = "/"
    THEN Basename(Tail(path))
    ELSE path

\* The code points of the characters that occur in module names.
Ord(c) ==
    CASE c = "-" -> 45 [] c = "_" -> 95 [] c = "a" -> 97 [] c = "b" -> 98
      [] c = "c" -> 99 [] c = "d" -> 100 [] c = "m" -> 109 [] c = "o" -> 111
      [] OTHER -> 0

\* Python's str comparison a < b.
RECURSIVE StrLess(_, _)
StrLess(a, b) ==
    IF b = <<>> THEN FALSE
    ELSE IF a = <<>> THEN TRUE
    ELSE IF Head(a) = Head(b) THEN StrLess(Tail(a), Tail(b))
    ELSE Ord(Head(a)) < Ord(Head(b))

Descriptor(path, gen) == [path |-> path, gen |-> gen]

\* modules.sort(key=lambda m: m.name), for modules of distinct names.
SortByName(S) ==
    CHOOSE seq \in [1..Cardinality(S) -> S] :
        /\ \A i, j \in 1..Cardinality(S) : i < j =>
              StrLess(Basename(seq[i].path), Basename(seq[j].path))

\* rglob("__manifest__.py") finds the directory.
HasManifest_anydir(state) == state # "nodir"
HasManifest(state) == state \notin {"nodir", "nomanifest"}

\* The body of scan() when it reads the directory.
Discover(sc) ==
    SortByName({ Descriptor(d, sc.gen + 1) :
                   d \in { p \in ScanDirs :
                             /\ HasManifest(sc.fs[p])
                             /\ ~scanner_should_exclude(p, ScannerPatterns(sc.patterns)) } })

\* A loaded manifest: the keys it has and the values that are read from it.
Manifest(keys, installable, version, depends) ==
    [keys |-> keys, installable |-> installable, version |-> version,
     depends |-> depends]

EmptyManifest == Manifest({}, FALSE, "", <<>>)

\* OdooModule._load_manifest on what is on disk now.
LoadManifest(sc, path) ==
    IF ~sc.root_exists THEN EmptyManifest
    ELSE CASE sc.fs[path] = "full" ->
                 Manifest({"name", "version", "depends", "data"}, FALSE, "17.0", <<"base">>)
           [] sc.fs[path] = "noninstallable" ->
                 Manifest({"name", "version", "depends", "data", "installable"},
                          FALSE, "17.0", <<"base">>)
           [] sc.fs[path] = "partial" -> Manifest({"name"}, FALSE, "", <<>>)
           [] OTHER -> EmptyManifest

\* The manifest property: loaded on first use, then cached in the object.
ManifestOf(sc, m) ==
    IF m \in DOMAIN sc.loaded THEN sc.loaded[m] ELSE LoadManifest(sc, m.path)

\* The scanner after the manifests of the modules of list were read.
WithLoaded(sc, list) ==
    [sc EXCEPT !.loaded =
        [m \in DOMAIN sc.loaded \cup {list[i] : i \in 1..Len(list)} |-> ManifestOf(sc, m)]]

\* manifest.get('installable', True)
DefaultInstallable_false == FALSE
DefaultInstallable == TRUE

is_installable(sc, m) ==
    IF "installable" \in ManifestOf(sc, m).keys
    THEN ManifestOf(sc, m).installable ELSE DefaultInstallable

\* manifest.get('version', '1.0') and manifest.get('depends', [])
version(sc, m) ==
    IF "version" \in ManifestOf(sc, m).keys THEN ManifestOf(sc, m).version ELSE "1.0"

depends(sc, m) ==
    IF "depends" \in ManifestOf(sc, m).keys THEN ManifestOf(sc, m).depends ELSE <<>>

has_invalid_name(m) == \E i \in 1..Len(Basename(m.path)) : Basename(m.path)[i] = "-"

MissingFields(man) ==
    LET required == <<"name", "version", "depends", "data">>
        missing == SelectSeq(required, LAMBDA f : f \notin man.keys)
    IN  [i \in 1..Len(missing) |-> <<"Field missing in __manifest__.py", missing[i]>>]

\* OdooModule.validate
validate(sc, m) ==
    LET man == ManifestOf(sc, m)
        hyphen == IF has_invalid_name(m) THEN << <<"Name contains hyphens">> >> ELSE <<>>
    IN  IF man.keys = {}
        THEN hyphen \o << <<"Could not load __manifest__.py">> >>
        ELSE hyphen \o MissingFields(man)
             \o (IF ~is_installable(sc, m)
                 THEN << <<"Module marked as non-installable">> >> ELSE <<>>)

NewScanner(fs, pats) ==
    [root_exists |-> TRUE, fs |-> fs, patterns |-> pats,
     modules |-> <<>>, loaded |-> <<>>, gen |-> 0, calls |-> 0, changes |-> 0,
     read |-> <<>>, last |-> [op |-> "none", force |-> FALSE, ret |-> <<>>,
                              change |-> FALSE]]

\* scan(force_rescan): the scanner afterwards, sc.last.ret the returned list.
\* sc.modules is self._modules (<<>> for None), sc.read the list made by the
\* latest scan that read the directory.
Scan(sc, force) ==
    IF sc.modules # <<>> /\ ~force
    THEN [sc EXCEPT !.last.ret = sc.modules[1]]
    ELSE IF ~sc.root_exists
    THEN [sc EXCEPT !.last.ret = <<>>]
    ELSE [sc EXCEPT !.modules = << Discover(sc) >>,
                    !.read = << Discover(sc) >>,
                    !.gen = @ + 1,
                    !.last.ret = Discover(sc)]

Called(sc, op, force) ==
    [sc EXCEPT !.calls = @ + 1,
               !.last = [op |-> op, force |-> force, ret |-> sc.last.ret,
                         change |-> sc.changes > 0 /\ sc.last.op = "change"]]

scan_scan ==
    /\ scan # <<>> /\ scan.calls < MaxScanCalls
    /\ \E force \in BOOLEAN :
          scan' = Scan(Called(scan, "scan", force), force)
    /\ UNCHANGED <<exec_vars, disk_vars, pack_vars, git, vps, host, cli>>

\* [m for m in self.scan() if m.is_installable]
scan_get_installable_modules ==
    /\ scan # <<>> /\ scan.calls < MaxScanCalls
    /\ LET sc == Scan(Called(scan, "get_installable_modules", FALSE), FALSE)
           list == sc.last.ret
       IN  scan' = [WithLoaded(sc, list) EXCEPT
                       !.last.ret = SelectSeq(list, LAMBDA m : is_installable(sc, m))]
    /\ UNCHANGED <<exec_vars, disk_vars, pack_vars, git, vps, host, cli>>

\* validate_all(): the dict of module name -> issues, as a set of items.
scan_validate_all ==
    /\ scan # <<>> /\ scan.calls < MaxScanCalls
    /\ LET sc == Scan(Called(scan, "validate_all", FALSE), FALSE)
           list == sc.last.ret
       IN  scan' = [WithLoaded(sc, list) EXCEPT
                       !.last.ret =
                           { [name |-> Basename(list[i].path), issues |-> validate(sc, list[i])]
                             : i \in { j \in 1..Len(list) : validate(sc, list[j]) # <<>> } }]
    /\ UNCHANGED <<exec_vars, disk_vars, pack_vars, git, vps, host, cli>>

\* The developer changes the addons directory: one directory changes, or the
\* whole addons directory is removed.
scan_fs_change ==
    /\ scan # <<>> /\ scan.changes < MaxChanges /\ scan.root_exists
    /\ \/ \E d \in ScanDirs : \E st \in DirStates(d) :
             /\ st # scan.fs[d]
             /\ scan' = [scan EXCEPT !.fs[d] = st, !.changes = @ + 1,
                                     !.last = [op |-> "change", force |-> FALSE,
                                               ret |-> <<>>, change |-> FALSE]]
       \/ scan' = [scan EXCEPT !.root_exists = FALSE, !.changes = @ + 1,
                               !.last = [op |-> "change", force |-> FALSE,
                                         ret |-> <<>>, change |-> FALSE]]
    /\ UNCHANGED <<exec_vars, disk_vars, pack_vars, git, vps, host, cli>>

InitScan ==
    /\ ExecIdle
    /\ PackIdle
    /\ logs = <<>>
    /\ backups = {}
    /\ backups0 = {}
    /\ clock = 0
    /\ last = NoCall
    /\ git = <<>>
    /\ vps = <<>>
    /\ host = <<>>
    /\ cli = <<>>
    /\ \E fs \in AddonsTrees, pats \in ScannerPatternLists : scan = NewScanner(fs, pats)

NextScan ==
    \/ scan_scan
    \/ scan_get_installable_modules
    \/ scan_validate_all
    \/ scan_fs_change

SpecScan == InitScan /\ [][NextScan]_vars

PathsOf(list) == [i \in 1..Len(list) |-> list[i].path]

\* The addons directory of the three-directory scenario, scanned with the
\* default patterns and not changed since: a_mod and b-mod with complete
\* manifests, and c_mod in state c.
Scenario(c) ==
    /\ scan # <<>>
    /\ scan.root_exists /\ scan.changes = 0 /\ scan.patterns = <<>>
    /\ scan.fs[A_MOD] = "full" /\ scan.fs[B_MOD] = "full"
    /\ scan.fs[C_MOD] = c /\ scan.fs[D_MOD] = "nodir"

Flagged(name, issue) ==
    \E item \in scan.last.ret :
        /\ item.name = Basename(name)
        /\ \E i \in 1..Len(item.issues) : item.issues[i] = issue

\* C15 (as stated): given a_mod, b-mod and c_mod without a manifest under a
\* root, scan() returns 3 descriptors and validate_all() flags b-mod for the
\* hyphen and c_mod for the missing manifest.
C15_ThreeDescriptors ==
    Scenario("nomanifest") =>
        /\ scan.last.op = "scan" => Len(scan.last.ret) = 3
        /\ scan.last.op = "validate_all" =>
              /\ Flagged(B_MOD, <<"Name contains hyphens">>)
              /\ Flagged(C_MOD, <<"Could not load __manifest__.py">>)

\* C15 (amended): given a_mod, b-mod and c_mod under a root, where c_mod has
\* no __manifest__.py, scan() returns the 2 descriptors a_mod and b-mod, in
\* this order, and validate_all() flags b-mod for the hyphen and nothing
\* else; c_mod is not a module and is not reported.  When c_mod has a
\* __manifest__.py that cannot be loaded, scan() returns 3 descriptors and
\* validate_all() flags b-mod for the hyphen and c_mod for the manifest.
C15_ManifestMakesTheModule ==
    /\ Scenario("nomanifest") =>
          /\ scan.last.op = "scan" => PathsOf(scan.last.ret) = <<A_MOD, B_MOD>>
          /\ scan.last.op = "validate_all" =>
                scan.last.ret = { [name |-> Basename(B_MOD),
                                   issues |-> << <<"Name contains hyphens">> >>] }
    /\ Scenario("unparseable") =>
          /\ scan.last.op = "scan" => PathsOf(scan.last.ret) = <<A_MOD, B_MOD, C_MOD>>
          /\ scan.last.op = "validate_all" =>
                scan.last.ret = { [name |-> Basename(B_MOD),
                                   issues |-> << <<"Name contains hyphens">> >>],
                                  [name |-> Basename(C_MOD),
                                   issues |-> << <<"Could not load __manifest__.py">> >>] }

C15_Witness ==
    /\ Scenario("nomanifest")
    /\ scan.last.op = "validate_all"
    /\ PathsOf(scan.modules[1]) = <<A_MOD, B_MOD>>
    /\ Flagged(B_MOD, <<"Name contains hyphens">>)

\* What is under the addons directory now, as scan would list it.
OnDisk ==
    IF scan.root_exists THEN PathsOf(Discover(scan)) ELSE <<>>

\* C16: after a first scan() of an existing root, every later scan() without
\* the force flag returns the identical ordered list of the same descriptor
\* objects, whatever changed on the filesystem in between; a
\* scan(force_rescan=true) after a filesystem change returns a list that
\* reflects the change and becomes the new cached result.
C16_CachedUntilForced ==
    (scan # <<>> /\ scan.last.op = "scan" /\ scan.gen >= 1) =>
        /\ ~scan.last.force => scan.last.ret = scan.read[1]
        /\ scan.last.force =>
              /\ PathsOf(scan.last.ret) = OnDisk
              /\ scan.modules = << scan.last.ret >>

\* The installable flag of a descriptor whose manifest has been read.
FlagOf(m) ==
    IF "installable" \in scan.loaded[m].keys THEN scan.loaded[m].installable ELSE TRUE

ScanList == IF scan.modules = <<>> THEN <<>> ELSE scan.modules[1]

\* C17: installable_modules() returns exactly the modules of scan(), in the
\* same order, whose installable flag is true, the flag being true when the
\* manifest does not set it; a module whose manifest fails to parse is not
\* dropped from scan() but kept with empty metadata and so with the defaults
\* (version "1.0", no dependencies, installable).
C17_InstallableFilter ==
    /\ (scan # <<>> /\ scan.last.op = "get_installable_modules") =>
          scan.last.ret = SelectSeq(ScanList, FlagOf)
    /\ (scan # <<>> /\ scan.last.op = "scan" /\ scan.root_exists
        /\ (scan.last.force \/ (scan.gen = 1 /\ scan.changes = 0))) =>
          \A d \in ScanDirs :
              (/\ scan.fs[d] = "unparseable"
               /\ ~scanner_should_exclude(d, ScannerPatterns(scan.patterns))) =>
                  \E i \in 1..Len(scan.last.ret) :
                      LET m == scan.last.ret[i] IN
                      /\ m.path = d
                      /\ ManifestOf(scan, m) = EmptyManifest
                      /\ version(scan, m) = "1.0"
                      /\ depends(scan, m) = <<>>
                      /\ is_installable(scan, m)

C17_Witness ==
    /\ scan # <<>> /\ scan.last.op = "get_installable_modules"
    /\ scan.fs[A_MOD] = "noninstallable" /\ scan.fs[C_MOD] = "unparseable"
    /\ PathsOf(ScanList) = <<A_MOD, B_MOD, C_MOD>>
    /\ PathsOf(scan.last.ret) = <<B_MOD, C_MOD>>

----------------------------------------------------------------------------
(* SpecHost: one run of BaseDeployer.execute on a VPSDeployer, from         *)
(* create_backup on (the configuration and the modules were found valid and *)
(* the host answered), against the module directories of the remote host.   *)
(* The backup root on disk is the variable backups; it holds what earlier   *)
(* deploys of this target and of another target left there.                 *)

MaxCustom == 2      \* entries of post_deploy.custom_commands

HostTarget == <<"p">>

HostNames == { BackupModules[i].name : i \in 1..Len(BackupModules) }

\* What a module directory holds: which version of the module, and whether
\* files that the packager's exclude patterns filter out are among them.
Content(v, unfiltered) == [version |-> v, unfiltered |-> unfiltered]

NoContent == Content("none", FALSE)

\* packager.prepare_modules: the staged copy of a module, filtered.
StagedContent == Content("new", FALSE)

\* What shutil.copytree put into module directory n of snapshot d: the whole
\* source tree of the module as it was then (for another target's snapshot,
\* that target's modules).  excl: the source trees hold excluded files.
SnapshotContent(d, n, excl) ==
    IF d.owner # HostTarget THEN Content("other", excl)
    ELSE IF d.mtime = clock THEN Content("new", excl)
    ELSE Content("old", excl)

\* The remote addons path before the run: a module is missing or is what an
\* earlier deploy uploaded.
HostRemotes == [HostNames -> {NoContent, Content("old", FALSE)}]

\* The backup root before the run: empty, or one snapshot of this target or
\* of another one.
HostRoots == { r \in ReachableRoots : Cardinality(r) <= 1 }

HostBackupConfigs ==
    { BackupConfig(enabled, keep_last) : enabled \in BOOLEAN,
                                         keep_last \in {1, DefaultKeepLast} }

HostStart(bcfg, excl, remote0) ==
    [pc |-> "create_backup", backup |-> bcfg, excl |-> excl,
     remote |-> remote0, remote0 |-> remote0, i |-> 1,
     uploads |-> {}, deployed |-> {}, backup_ok |-> <<>>,
     deploy_result |-> <<>>, rollback |-> <<>>, post |-> <<>>, result |-> <<>>]

\* execute, step 3: if not self.create_backup(modules): return failure.
host_create_backup ==
    /\ host # <<>> /\ host.pc = "create_backup"
    /\ \E o \in create_backup(backups, HostTarget, host.backup, BackupModules, clock) :
          /\ backups' = o.dir
          /\ host' = IF o.ret
                     THEN [host EXCEPT !.backup_ok = <<TRUE>>, !.pc = "prepare_modules"]
                     ELSE [host EXCEPT !.backup_ok = <<FALSE>>, !.pc = "returned",
                                       !.result = << DeploymentResult(FALSE,
                                                       <<"Backup failed">>,
                                                       NoDetails) >>]
    /\ UNCHANGED <<exec_vars, backups0, clock, last, pack_vars, git, vps, scan, cli>>

\* deploy_modules returned a failed result: execute calls rollback next.
HostDeployFailed(h, message) ==
    [h EXCEPT !.deploy_result = << DeploymentResult(FALSE, message, NoDetails) >>,
              !.pc = "rollback"]

\* deploy_modules: temp_dir = self.packager.prepare_modules(modules)
host_prepare_modules ==
    /\ host # <<>> /\ host.pc = "prepare_modules"
    /\ \/ host' = [host EXCEPT !.pc = "upload"]
       \/ host' = HostDeployFailed(host, <<"Deployment error: ">>)
    /\ UNCHANGED <<exec_vars, disk_vars, pack_vars, git, vps, scan, cli>>

\* An upload that rsync completed: the remote directory becomes the source
\* directory (rsync -avz --delete <local>/ <remote>/).
Upload(h, name, content, by) ==
    [h EXCEPT !.remote[name] = content,
              !.uploads = @ \cup { [name |-> name, content |-> content, by |-> by] }]

\* One iteration of the upload loop of deploy_modules: the staged module is
\* uploaded, or _upload_directory returns False (rsync failed or timed out,
\* leaving the remote directory as it was or half written).
host_upload_module ==
    /\ host # <<>> /\ host.pc = "upload"
    /\ LET name == BackupModules[host.i].name IN
       \/ LET h == [Upload(host, name, StagedContent, "deploy_modules")
                      EXCEPT !.i = @ + 1, !.deployed = @ \cup {name}]
          IN  host' = IF host.i < Len(BackupModules) THEN h
                      ELSE [h EXCEPT !.pc = "post_deploy_actions",
                                     !.deploy_result =
                                        << DeploymentResult(TRUE,
                                             <<"Modules deployed successfully">>,
                                             [Details({"modules"})
                                                EXCEPT !.modules = Names(BackupModules)]) >>]
       \/ \E torn \in BOOLEAN :
             host' = HostDeployFailed(
                        [host EXCEPT !.remote[name] =
                                        IF torn THEN Content("torn", FALSE) ELSE @],
                        <<"Failed to upload module: ", name>>)
    /\ UNCHANGED <<exec_vars, disk_vars, pack_vars, git, vps, scan, cli>>

\* VPSDeployer.rollback(): what it can do to the host h with backup root dir.
\*   backups[0] of the directories whose name starts with the target name,
\*   sorted by modification time, newest first; every module directory of it
\*   is uploaded (a failed upload is logged and the loop goes on); then the
\*   restart command is run, whose exit status is ignored and whose
\*   exception the except clause reports.
HostRollbackOutcomes(h, dir) ==
    IF Listed(dir, HostTarget) = {}
    THEN { [h EXCEPT !.rollback =
              << [from |-> <<>>, attempted |-> {}, restored |-> {}, restart |-> "none",
                  result |-> DeploymentResult(FALSE, <<"No backups found">>, NoDetails)] >>] }
    ELSE UNION {
           LET latest_backup == s[1] IN
           { [h EXCEPT
                !.remote = [n \in HostNames |->
                              IF n \in ok THEN SnapshotContent(latest_backup, n, h.excl)
                              ELSE @[n]],
                !.uploads = @ \cup { [name |-> n,
                                      content |-> SnapshotContent(latest_backup, n, h.excl),
                                      by |-> "rollback"] : n \in ok },
                !.rollback =
                   << [from |-> <<latest_backup>>, attempted |-> latest_backup.mods,
                       restored |-> ok, restart |-> restart,
                       result |-> IF restart = "raise"
                                  THEN DeploymentResult(FALSE, <<"Rollback error: ">>,
                                                        NoDetails)
                                  ELSE DeploymentResult(TRUE,
                                         <<"Rollback completed successfully">>,
                                         NoDetails)] >>]
             : ok \in SUBSET latest_backup.mods, restart \in {"ok", "nonzero", "raise"} }
           : s \in SortedNewestFirst(Listed(dir, HostTarget)) }

\* execute, step 5: self.rollback(); return deploy_result.
host_rollback ==
    /\ host # <<>> /\ host.pc = "rollback"
    /\ \E h \in HostRollbackOutcomes(host, backups) :
          host' = [h EXCEPT !.pc = "returned", !.result = host.deploy_result]
    /\ UNCHANGED <<exec_vars, disk_vars, pack_vars, git, vps, scan, cli>>

\* post_deploy: restart_service, update_modules, custom_commands.
PostDeployConfigs ==
    [restart_service : BOOLEAN, update_modules : BOOLEAN,
     custom_commands : UNION { [1..n -> {"c1", "c2"}] : n \in 0..MaxCustom }]

\* The remote commands post_deploy_actions is configured to run, in the
\* order of its code.
PostDeployCommands(pcfg) ==
    (IF pcfg.restart_service THEN << [kind |-> "restart", cmd |-> "restart"] >> ELSE <<>>)
    \o (IF pcfg.update_modules THEN << [kind |-> "update", cmd |-> "update"] >> ELSE <<>>)
    \o [i \in 1..Len(pcfg.custom_commands) |->
          [kind |-> "custom", cmd |-> pcfg.custom_commands[i]]]

\* What _run_ssh_command does: exit status 0, another exit status, or an
\* exception (TimeoutExpired, FileNotFoundError).
SshOutcomes == {"ok", "nonzero", "raise"}

\* A variant of StopsAfter in which every failing command ends the method.
StopsAfter_nonzero(kind, outcome) == outcome # "ok"

\* post_deploy_actions ends after a command: an exception reaches the except
\* clause, and a restart that exits non-zero makes it return a failure.
StopsAfter(kind, outcome) ==
    outcome = "raise" \/ (kind = "restart" /\ outcome = "nonzero")

\* The commands run, given the outcome oc[i] of the i-th configured one.
RECURSIVE RunCommands(_, _, _, _)
RunCommands(cmds, oc, i, ran) ==
    IF i > Len(cmds) THEN ran
    ELSE IF StopsAfter(cmds[i].kind, oc[i]) THEN Append(ran, cmds[i].cmd)
    ELSE RunCommands(cmds, oc, i + 1, Append(ran, cmds[i].cmd))

\* The log entry written after the i-th command when the method goes on.
CommandLog(c, outcome) ==
    CASE c.kind = "restart" -> LogEntry(<<"Service restarted">>, "success")
      [] c.kind = "update" /\ outcome = "ok" -> LogEntry(<<"Modules updated">>, "success")
      [] c.kind = "update" ->
            LogEntry(<<"Warning: Module update had issues: ">>, "warning")
      [] c.kind = "custom" /\ outcome = "ok" ->
            LogEntry(<<"Command completed: ", c.cmd>>, "success")
      [] OTHER -> LogEntry(<<"Command failed: ", c.cmd>>, "warning")

PostDeploy(pcfg, oc) ==
    LET cmds == PostDeployCommands(pcfg)
        ran == RunCommands(cmds, oc, 1, <<>>)
        n == Len(ran)
        stopped == n > 0 /\ StopsAfter(cmds[n].kind, oc[n])
        done == IF stopped THEN n - 1 ELSE n
    IN  [cfg |-> pcfg, outcomes |-> oc, ran |-> ran,
         logs |-> [i \in 1..done |-> CommandLog(cmds[i], oc[i])]
                  \o (IF ~stopped THEN <<>>
                      ELSE IF oc[n] = "raise"
                      THEN << LogEntry(<<"Post-deploy actions failed: ">>, "error") >>
                      ELSE << LogEntry(<<"Failed to restart: ">>, "error") >>),
         result |-> IF ~stopped
                    THEN DeploymentResult(TRUE, <<"Post-deploy actions completed">>,
                                          NoDetails)
                    ELSE IF oc[n] = "raise"
                    THEN DeploymentResult(FALSE, <<"Post-deploy error: ">>, NoDetails)
                    ELSE DeploymentResult(FALSE, <<"Failed to restart">>, NoDetails)]

\* execute, step 6, with VPSDeployer.post_deploy_actions.
host_post_deploy_actions ==
    /\ host # <<>> /\ host.pc = "post_deploy_actions"
    /\ \E pcfg \in PostDeployConfigs :
          \E oc \in [1..Len(PostDeployCommands(pcfg)) -> SshOutcomes] :
             host' = [host EXCEPT !.post = << PostDeploy(pcfg, oc) >>,
                                  !.pc = "returned",
                                  !.result = host.deploy_result]
    /\ UNCHANGED <<exec_vars, disk_vars, pack_vars, git, vps, scan, cli>>

InitHost ==
    /\ ExecIdle
    /\ PackIdle
    /\ logs = <<>>
    /\ backups \in HostRoots
    /\ backups0 = backups
    /\ clock = MaxClock
    /\ last = NoCall
    /\ git = <<>>
    /\ vps = <<>>
    /\ scan = <<>>
    /\ cli = <<>>
    /\ \E bcfg \in HostBackupConfigs, excl \in BOOLEAN, remote0 \in HostRemotes :
          host = HostStart(bcfg, excl, remote0)

NextHost ==
    \/ host_create_backup
    \/ host_prepare_modules
    \/ host_upload_module
    \/ host_rollback
    \/ host_post_deploy_actions

SpecHost == InitHost /\ [][NextHost]_vars

PostDone == host # <<>> /\ host.post # <<>>

\* The i-th configured command was run exactly once, after the ones before it.
RanAsConfigured ==
    host.post[1].ran =
        [i \in 1..Len(PostDeployCommands(host.post[1].cfg)) |->
            PostDeployCommands(host.post[1].cfg)[i].cmd]

\* C24 as stated: post_deploy_actions runs the optional restart, then the
\* optional module-update command, then every configured custom command
\* exactly once in configured order; a custom command that fails is logged
\* and does not prevent the remaining commands from running.
C24_EveryCommandRuns ==
    PostDone => RanAsConfigured

\* C24 amended: the commands run are always a prefix of restart, update,
\* custom commands in configured order; all of them run, each exactly once,
\* and the result is a success unless the restart exits non-zero or a command
\* raises (times out), which ends the method with a failed result; a module
\* update or a custom command that exits non-zero is logged as a warning.
C24_CommandsRunUnlessRestartFailsOrRaise ==
    PostDone =>
        LET p == host.post[1]
            cmds == PostDeployCommands(p.cfg)
            hard(i) == p.outcomes[i] = "raise"
                       \/ (cmds[i].kind = "restart" /\ p.outcomes[i] = "nonzero")
        IN  /\ Len(p.ran) <= Len(cmds)
            /\ \A i \in 1..Len(p.ran) : p.ran[i] = cmds[i].cmd
            /\ (\A i \in 1..Len(cmds) : ~hard(i)) =>
                  /\ RanAsConfigured
                  /\ p.result.success
                  /\ \A i \in 1..Len(cmds) :
                        (cmds[i].kind # "restart" /\ p.outcomes[i] = "nonzero") =>
                            p.logs[i].level = "warning"
            /\ \A i \in 1..Len(cmds) :
                  (hard(i) /\ \A j \in 1..(i - 1) : ~hard(j)) =>
                      /\ Len(p.ran) = i
                      /\ ~p.result.success

\* The first custom command exits non-zero and the second one still runs.
C24_Witness ==
    /\ PostDone
    /\ host.post[1].cfg = [restart_service |-> TRUE, update_modules |-> TRUE,
                           custom_commands |-> <<"c1", "c2">>]
    /\ host.post[1].outcomes = <<"ok", "nonzero", "nonzero", "ok">>
    /\ host.post[1].ran = <<"restart", "update", "c1", "c2">>
    /\ host.post[1].result.success

RolledBack == host # <<>> /\ host.rollback # <<>> /\ host.rollback[1].from # <<>>

\* C25: VPS rollback restores from the most recent backup snapshot of its
\* own target: among the snapshots created for this target it selects the
\* one with the latest modification time, never a snapshot created for
\* another target, re-uploads every module directory found in it, and then
\* restarts the service or container.
C25_RollbackUsesOwnLatest ==
    RolledBack =>
        LET r == host.rollback[1] IN
        /\ r.from[1].owner = HostTarget
        /\ \A d \in SnapshotsOf(backups, HostTarget) : d.mtime <= r.from[1].mtime
        /\ r.attempted = r.from[1].mods
        /\ r.restart # "none"

\* C27: after a run whose transfer fails part-way (some modules already
\* uploaded), the rollback triggered by execute restores the remote module
\* directories to the content they had before the run started.
C27_RollbackRestoresRemote ==
    (/\ host # <<>> /\ host.pc = "returned"
     /\ host.deployed # {}
     /\ host.rollback # <<>>
     /\ host.rollback[1].result.success) =>
        host.remote = host.remote0

\* C30: every upload performed by deploy_modules or by rollback sends only
\* content that passed the packager's exclusion filter.
C30_OnlyFilteredContentUploaded ==
    host # <<>> => \A u \in host.uploads : ~u.content.unfiltered

----------------------------------------------------------------------------
(* SpecCli: one `deploy run <target>` of deploy_cli, from the loading of    *)
(* the declaration file .rkd/deploy.yaml to the backup step of execute.     *)
(* The declaration file has the top-level sections `backup` and             *)
(* `validations` beside `targets`; a target record may hold keys of the     *)
(* same names.                                                              *)

CliTarget == <<"p">>

\* The modules the scanner hands over: each has a manifest.
CliModuleLists ==
    UNION { [1..n -> { m \in ModuleDicts : m.manifest /\ m.py # "undecodable" }]
            : n \in 1..MaxModules }

\* config = config_manager.load(): the top-level policies and the record of
\* the target (<<>>: the key is missing from the record).
Declarations ==
    [backup : { BackupConfig(enabled, keep_last) :
                  enabled \in BOOLEAN, keep_last \in {1, DefaultKeepLast} },
     validations : { Validations(FALSE, TRUE, TRUE, TRUE),
                     Validations(TRUE, TRUE, TRUE, TRUE) },
     target : [backup : { <<>>, << BackupConfig(TRUE, 2) >> },
               validations : { <<>>, << Validations(TRUE, TRUE, FALSE, TRUE) >> }]]

\* self.config.get('backup', {}) and self.config.get('validations', {}) on
\* the record the deployer was constructed with.
ConfigGet(record) ==
    [backup |-> IF record.backup = <<>> THEN BackupConfig(TRUE, DefaultKeepLast)
                ELSE record.backup[1],
     validations |-> IF record.validations = <<>>
                     THEN Validations(FALSE, TRUE, TRUE, TRUE)
                     ELSE record.validations[1]]

\* target_config = config.get('targets', {}).get(target)
TargetConfig(decl) == decl.target

\* deploy_run: the deployer is constructed with target_config, and the skip
\* flags then overwrite keys of that record.
DeployerConfig(decl, skip_backup, skip_validation) ==
    LET target_config == TargetConfig(decl) IN
    ConfigGet([backup |-> IF skip_backup
                          THEN << BackupConfig(FALSE, DefaultKeepLast) >>
                          ELSE target_config.backup,
               validations |-> IF skip_validation
                               THEN << Validations(FALSE, TRUE, TRUE, TRUE) >>
                               ELSE target_config.validations])

CliStart(decl, skip_backup, skip_validation, mods) ==
    [pc |-> "deploy_run", decl |-> decl, skip_backup |-> skip_backup,
     skip_validation |-> skip_validation, modules |-> mods,
     config |-> <<>>, validation_errors |-> <<>>, backup_ok |-> <<>>,
     logs |-> <<>>, result |-> <<>>]

\* deploy_run up to deployer.execute(modules_dict).
cli_deploy_run ==
    /\ cli # <<>> /\ cli.pc = "deploy_run"
    /\ cli' = [cli EXCEPT !.config = << DeployerConfig(cli.decl, cli.skip_backup,
                                                       cli.skip_validation) >>,
                          !.pc = "validate_modules"]
    /\ UNCHANGED <<exec_vars, disk_vars, pack_vars, git, vps, scan, host>>

\* execute, step 2.
cli_validate_modules ==
    /\ cli # <<>> /\ cli.pc = "validate_modules"
    /\ LET r == validate_modules(cli.modules, cli.config[1].validations)
       IN  cli' = [cli EXCEPT
                     !.validation_errors = << r.errors >>,
                     !.pc = IF r.errors # <<>> THEN "returned" ELSE "create_backup",
                     !.result = IF r.errors # <<>>
                                THEN << DeploymentResult(FALSE,
                                          <<"Module validation failed">>,
                                          [Details({"errors"}) EXCEPT !.errors = r.errors]) >>
                                ELSE <<>>]
    /\ UNCHANGED <<exec_vars, disk_vars, pack_vars, git, vps, scan, host>>

\* execute, step 3.
cli_create_backup ==
    /\ cli # <<>> /\ cli.pc = "create_backup"
    /\ \E o \in create_backup(backups, CliTarget, cli.config[1].backup,
                              cli.modules, clock) :
          /\ backups' = o.dir
          /\ cli' = [cli EXCEPT
                       !.backup_ok = << o.ret >>,
                       !.logs = o.logs,
                       !.pc = IF o.ret THEN "pre_deploy_check" ELSE "returned",
                       !.result = IF o.ret THEN <<>>
                                  ELSE << DeploymentResult(FALSE, <<"Backup failed">>,
                                                           NoDetails) >>]
    /\ UNCHANGED <<exec_vars, backups0, clock, last, pack_vars, git, vps, scan, host>>

\* The snapshots earlier deploys of the target left in the backup root.
CliRoots ==
    { r \in ReachableRoots : \A d \in r : d.owner = CliTarget /\ d.mtime < MaxClock }

InitCli ==
    /\ ExecIdle
    /\ PackIdle
    /\ logs = <<>>
    /\ backups \in CliRoots
    /\ backups0 = backups
    /\ clock = MaxClock
    /\ last = NoCall
    /\ git = <<>>
    /\ vps = <<>>
    /\ scan = <<>>
    /\ host = <<>>
    /\ \E decl \in Declarations, skip_backup \in BOOLEAN, skip_validation \in BOOLEAN,
          mods \in CliModuleLists :
          cli = CliStart(decl, skip_backup, skip_validation, mods)

NextCli ==
    \/ cli_deploy_run
    \/ cli_validate_modules
    \/ cli_create_backup

SpecCli == InitCli /\ [][NextCli]_vars

NoSkipFlags == cli # <<>> /\ ~cli.skip_backup /\ ~cli.skip_validation

\* C28: in a `deploy run` invocation without --skip-backup or
\* --skip-validation, create_backup and validate_modules use the declaration
\* file's top-level backup and validations policies, so a module violating
\* an enabled validation check aborts the run before backup, and pruning
\* honours the declared retention count.
C28_TopLevelPoliciesApplied ==
    NoSkipFlags =>
        /\ cli.config # <<>> =>
              cli.config[1] = [backup |-> cli.decl.backup,
                               validations |-> cli.decl.validations]
        /\ (/\ cli.validation_errors # <<>>
            /\ validate_modules(cli.modules, cli.decl.validations).errors # <<>>) =>
              /\ cli.pc = "returned"
              /\ backups = backups0
        /\ (/\ cli.backup_ok = <<TRUE>>
            /\ \A i \in 1..Len(cli.logs) : cli.logs[i].level # "warning") =>
              IF cli.decl.backup.enabled
              THEN Cardinality(SnapshotsOf(backups, CliTarget)) <= cli.decl.backup.keep_last
              ELSE backups = backups0

====
